---- MODULE Spec2Model ----
(***************************************************************************)
(* Model of the date/cycle arithmetic engine of the subscription manager   *)
(* (src/index.js): the lunisolar calendar, lunar period arithmetic, the    *)
(* reminder evaluator, the timezone clock and the auto-renewal pass.       *)
(*                                                                         *)
(* Time.  A JavaScript Date is an absolute instant in milliseconds.  The   *)
(* model counts instants in ticks, TicksPerHour ticks to the hour, from    *)
(* 1970-01-01T00:00Z, so MS_PER_HOUR and MS_PER_DAY are the source's       *)
(* constants expressed in ticks.  The host's local time is UTC (the code   *)
(* runs on Cloudflare Workers, src/index.js:10); a configured timezone is  *)
(* a fixed-offset zone, a whole number of hours east of UTC.               *)
(***************************************************************************)
EXTENDS Integers, Sequences, FiniteSets, TLC

\* The value JavaScript's null and undefined take in the model.
Null == [isNull |-> TRUE]

TicksPerHour == 2
MS_PER_HOUR == TicksPerHour
MS_PER_DAY == MS_PER_HOUR * 24

(***************************************************************************)
(* The Gregorian calendar of JavaScript's Date.                            *)
(***************************************************************************)

\* Day number (days since 1970-01-01) of day `date` of month `m` (1..12) of
\* year `y`; `date` may lie outside the month, as in Date.UTC and new Date.
DaysFromCivil(y, m, date) ==
    LET yy  == IF m <= 2 THEN y - 1 ELSE y
        era == yy \div 400
        yoe == yy - era * 400
        mp  == IF m > 2 THEN m - 3 ELSE m + 9
        doy == (153 * mp + 2) \div 5 + date - 1
        doe == yoe * 365 + yoe \div 4 - yoe \div 100 + doy
    IN  era * 146097 + doe - 719468

\* Year, month (1..12) and day of month of a day number.
CivilFromDays(z) ==
    LET zz  == z + 719468
        era == zz \div 146097
        doe == zz - era * 146097
        yoe == (doe - doe \div 1460 + doe \div 36524 - doe \div 146096) \div 365
        doy == doe - (365 * yoe + yoe \div 4 - yoe \div 100)
        mp  == (5 * doy + 2) \div 153
        d   == doy - (153 * mp + 2) \div 5 + 1
        m   == IF mp < 10 THEN mp + 3 ELSE mp - 9
        y   == yoe + era * 400
    IN  [year |-> IF m <= 2 THEN y + 1 ELSE y, month |-> m, day |-> d]

\* MakeDay of new Date(year, monthIndex, date): monthIndex (0-based) and date
\* overflow into the following months and years.
MakeDay(year, monthIndex, date) ==
    DaysFromCivil(year + monthIndex \div 12, (monthIndex % 12) + 1, 1) + date - 1

(***************************************************************************)
(* lunarCalendar                                                           *)
(***************************************************************************)

lunarInfo == <<
    \h04bd8, \h04ae0, \h0a570, \h054d5, \h0d260, \h0d950, \h16554, \h056a0, \h09ad0, \h055d2,   \* 1900-1909
    \h04ae0, \h0a5b6, \h0a4d0, \h0d250, \h1d255, \h0b540, \h0d6a0, \h0ada2, \h095b0, \h14977,   \* 1910-1919
    \h04970, \h0a4b0, \h0b4b5, \h06a50, \h06d40, \h1ab54, \h02b60, \h09570, \h052f2, \h04970,   \* 1920-1929
    \h06566, \h0d4a0, \h0ea50, \h06e95, \h05ad0, \h02b60, \h186e3, \h092e0, \h1c8d7, \h0c950,   \* 1930-1939
    \h0d4a0, \h1d8a6, \h0b550, \h056a0, \h1a5b4, \h025d0, \h092d0, \h0d2b2, \h0a950, \h0b557,   \* 1940-1949
    \h06ca0, \h0b550, \h15355, \h04da0, \h0a5b0, \h14573, \h052b0, \h0a9a8, \h0e950, \h06aa0,   \* 1950-1959
    \h0aea6, \h0ab50, \h04b60, \h0aae4, \h0a570, \h05260, \h0f263, \h0d950, \h05b57, \h056a0,   \* 1960-1969
    \h096d0, \h04dd5, \h04ad0, \h0a4d0, \h0d4d4, \h0d250, \h0d558, \h0b540, \h0b6a0, \h195a6,   \* 1970-1979
    \h095b0, \h049b0, \h0a974, \h0a4b0, \h0b27a, \h06a50, \h06d40, \h0af46, \h0ab60, \h09570,   \* 1980-1989
    \h04af5, \h04970, \h064b0, \h074a3, \h0ea50, \h06b58, \h055c0, \h0ab60, \h096d5, \h092e0,   \* 1990-1999
    \h0c960, \h0d954, \h0d4a0, \h0da50, \h07552, \h056a0, \h0abb7, \h025d0, \h092d0, \h0cab5,   \* 2000-2009
    \h0a950, \h0b4a0, \h0baa4, \h0ad50, \h055d9, \h04ba0, \h0a5b0, \h15176, \h052b0, \h0a930,   \* 2010-2019
    \h07954, \h06aa0, \h0ad50, \h05b52, \h04b60, \h0a6e6, \h0a4e0, \h0d260, \h0ea65, \h0d530,   \* 2020-2029
    \h05aa0, \h076a3, \h096d0, \h04afb, \h04ad0, \h0a4d0, \h1d0b6, \h0d250, \h0d520, \h0dd45,   \* 2030-2039
    \h0b5a0, \h056d0, \h055b2, \h049b0, \h0a577, \h0a4b0, \h0aa50, \h1b255, \h06d20, \h0ada0,   \* 2040-2049
    \h14b63, \h09370, \h14a38, \h04970, \h064b0, \h168a6, \h0ea50, \h1a978, \h16aa0, \h0a6c0,   \* 2050-2059
    \h0aa60, \h16d63, \h0d260, \h0d950, \h0d554, \h0d4a0, \h0da50, \h07552, \h056a0, \h0abb7,   \* 2060-2069
    \h025d0, \h092d0, \h0cab5, \h0a950, \h0b4a0, \h0baa4, \h0ad50, \h055d9, \h04ba0, \h0a5b0,   \* 2070-2079
    \h15176, \h052b0, \h0a930, \h07954, \h06aa0, \h0ad50, \h05b52, \h04b60, \h0a6e6, \h0a4e0,   \* 2080-2089
    \h0d260, \h0ea65, \h0d530, \h05aa0, \h076a3, \h096d0, \h04afb, \h1a4bb, \h0a4d0, \h0d0b0,   \* 2090-2099
    \h0d250   \* 2100
    >>

\* lunarInfo[year - 1900]; an index outside the table reads undefined, which
\* the bitwise operators of the callers take as 0.
LunarInfoAt(year) ==
    IF year >= 1900 /\ year <= 2100 THEN lunarInfo[year - 1900 + 1] ELSE 0

\* (x & (1 << k)) ? 1 : 0
Bit(x, k) == (x \div (2 ^ k)) % 2

leapMonth(year) == LunarInfoAt(year) % 16

leapDays(year) ==
    IF leapMonth(year) # 0
    THEN (IF Bit(LunarInfoAt(year), 16) = 1 THEN 30 ELSE 29)
    ELSE 0

RECURSIVE SumMonthBits(_, _)
\* for (i = 0x8000; i > 0x8; i >>= 1) sum += (lunarInfo & i) ? 1 : 0, i = 2^k
SumMonthBits(year, k) ==
    IF k > 3 THEN Bit(LunarInfoAt(year), k) + SumMonthBits(year, k - 1) ELSE 0

lunarYearDays(year) == 348 + SumMonthBits(year, 15) + leapDays(year)

monthDays(year, month) ==
    IF Bit(LunarInfoAt(year), 16 - month) = 1 THEN 30 ELSE 29

\* Call by value: Op applied to the value of v, v evaluated once.
Strict(v, Op(_)) == CHOOSE r \in {Op(x) : x \in {v}} : TRUE

RECURSIVE SumYearDays(_, _)
\* lunarYearDays(a) + ... + lunarYearDays(b)
SumYearDays(a, b) ==
    IF a > b THEN 0
    ELSE IF a = b THEN lunarYearDays(a)
    ELSE SumYearDays(a, (a + b) \div 2) + SumYearDays((a + b) \div 2 + 1, b)

\* What the year loop has subtracted from offset when it tests lunarYear = y.
DaysBefore == [y \in 1900..2101 |-> SumYearDays(1900, y - 1)]

\* for (lunarYear = 1900; lunarYear < 2101 && offset > 0; lunarYear++)
\*   { temp = lunarYearDays(lunarYear); offset -= temp; }
\* The loop leaves at the first lunarYear that is 2101 or finds the running
\* offset <= 0; the running offset only decreases, so that is the one year
\* that leaves while the year before it does not.
YearLoopExit(y, offset) == y = 2101 \/ offset - DaysBefore[y] <= 0

YearLoop(offset) ==
    LET ly == CHOOSE y \in 1900..2101 :
                  /\ YearLoopExit(y, offset)
                  /\ (y = 1900 \/ ~YearLoopExit(y - 1, offset))
    IN  [lunarYear |-> ly,
         offset    |-> offset - DaysBefore[ly],
         temp      |-> IF ly = 1900 THEN 0 ELSE lunarYearDays(ly - 1)]

\* One turn of the month loop, s = [lunarYear, leap, lunarMonth, offset,
\* temp, isLeap].
MonthStep(s) ==
    LET enter == s.leap > 0 /\ s.lunarMonth = s.leap + 1 /\ ~s.isLeap
        m1 == IF enter THEN s.lunarMonth - 1 ELSE s.lunarMonth
        t1 == IF enter THEN leapDays(s.lunarYear)
                       ELSE monthDays(s.lunarYear, s.lunarMonth)
        \* if (isLeap && lunarMonth === (leap + 1)) isLeap = false
        l2 == IF enter THEN m1 # s.leap + 1
                       ELSE s.isLeap /\ m1 # s.leap + 1
    IN  [s EXCEPT !.lunarMonth = m1 + 1, !.offset = s.offset - t1,
                  !.temp = t1, !.isLeap = l2]

RECURSIVE MonthLoop(_)
\* for (lunarMonth = 1; lunarMonth < 13 && offset > 0; lunarMonth++)
MonthLoop(s) ==
    IF s.lunarMonth < 13 /\ s.offset > 0
    THEN Strict(MonthStep(s), MonthLoop)
    ELSE s

\* The state after the year loop, corrected: if (offset < 0) { offset +=
\* temp; lunarYear--; }, and the month loop's initial state.
MonthInit(yl) ==
    LET under == yl.offset < 0
        lunarYear == IF under THEN yl.lunarYear - 1 ELSE yl.lunarYear
    IN  [lunarYear  |-> lunarYear,
         leap       |-> leapMonth(lunarYear),
         lunarMonth |-> 1,
         offset     |-> IF under THEN yl.offset + yl.temp ELSE yl.offset,
         temp       |-> yl.temp,
         isLeap     |-> FALSE]

\* The tail of solar2lunar without its test of the first day of a month
\* next to the leap month.
LunarOfUnfixed(ml) ==
    LET under == ml.offset < 0
    IN  [year   |-> ml.lunarYear,
         month  |-> IF under THEN ml.lunarMonth - 1 ELSE ml.lunarMonth,
         day    |-> (IF under THEN ml.offset + ml.temp ELSE ml.offset) + 1,
         isLeap |-> ml.isLeap]

\* The tail of solar2lunar, from the state ml the month loop ends in.
LunarOf(ml) ==
    LET \* if (offset === 0 && leap > 0 && lunarMonth === leap + 1)
        fix == ml.offset = 0 /\ ml.leap > 0 /\ ml.lunarMonth = ml.leap + 1
        isLeap2 == IF fix THEN ~ml.isLeap ELSE ml.isLeap
        month2  == IF fix /\ ~ml.isLeap THEN ml.lunarMonth - 1
                                        ELSE ml.lunarMonth
        \* if (offset < 0) { offset += temp; --lunarMonth; }
        under == ml.offset < 0
    IN  [year   |-> ml.lunarYear,
         month  |-> IF under THEN month2 - 1 ELSE month2,
         day    |-> (IF under THEN ml.offset + ml.temp ELSE ml.offset) + 1,
         isLeap |-> isLeap2]

\* solar2lunar from offset, the days from 1900-01-31 to the date.
Solar2LunarOffset(offset) ==
    Strict(Strict(Strict(Strict(offset, YearLoop), MonthInit), MonthLoop),
           LunarOf)

\* Date.UTC(1900, 0, 31) as a day number.
BaseDay == DaysFromCivil(1900, 1, 31)

\* The day numbers of the solar years a..b.
YearsDays(a, b) == DaysFromCivil(a, 1, 1)..DaysFromCivil(b, 12, 31)

\* The conversions of three stretches of solar years are tabulated once, so
\* that the search of lunar2solar reads them instead of converting each
\* candidate date anew: the first years of the table, the years the
\* subscriptions of the model live in, and the last years of the table.
MemoLow  == [n \in YearsDays(1900, 1901) |-> Solar2LunarOffset(n - BaseDay)]
MemoMid  == [n \in YearsDays(2021, 2027) |-> Solar2LunarOffset(n - BaseDay)]
MemoHigh == [n \in YearsDays(2099, 2100) |-> Solar2LunarOffset(n - BaseDay)]

MemoLowFirst  == DaysFromCivil(1900, 1, 1)
MemoLowLast   == DaysFromCivil(1901, 12, 31)
MemoMidFirst  == DaysFromCivil(2021, 1, 1)
MemoMidLast   == DaysFromCivil(2027, 12, 31)
MemoHighFirst == DaysFromCivil(2099, 1, 1)
MemoHighLast  == DaysFromCivil(2100, 12, 31)

\* solar2lunar of the date with day number n, whose year the caller has found
\* to be in 1900..2100.
Solar2LunarDay(n) ==
    IF n >= MemoMidFirst /\ n <= MemoMidLast THEN MemoMid[n]
    ELSE IF n >= MemoLowFirst /\ n <= MemoLowLast THEN MemoLow[n]
    ELSE IF n >= MemoHighFirst /\ n <= MemoHighLast THEN MemoHigh[n]
    ELSE Solar2LunarOffset(n - BaseDay)

solar2lunar(year, month, day) ==
    IF year < 1900 \/ year > 2100
    THEN Null
    ELSE Solar2LunarDay(DaysFromCivil(year, month, day))

(***************************************************************************)
(* lunarBiz                                                                *)
(***************************************************************************)

\* What reading a property of null or undefined throws.
TypeError == [error |-> "TypeError"]

\* The four fields lunar2solar compares, l.year === lunar.year && l.month ===
\* lunar.month && l.day === lunar.day && l.isLeap === lunar.isLeap: they are
\* all the fields of a conversion, so the test is equality with this record.
LunarKey(lunar) ==
    [year |-> lunar.year, month |-> lunar.month, day |-> lunar.day,
     isLeap |-> lunar.isLeap]

\* The day numbers of the solar years in 1900..2100 among lunar.year - 1 ..
\* lunar.year + 1 (solar2lunar is null for the other years).
SearchDays(lunar) ==
    LET ys == ((lunar.year - 1)..(lunar.year + 1)) \cap (1900..2100)
    IN  UNION {DaysFromCivil(y, 1, 1)..DaysFromCivil(y, 12, 31) : y \in ys}

\* Lunar2SolarOf without the comparison of isLeap.
Lunar2SolarAnyLeap(key) ==
    Strict({n \in SearchDays(key) :
              [Solar2LunarDay(n) EXCEPT !.isLeap = key.isLeap] = key},
           LAMBDA hits :
             IF hits = {} THEN Null
             ELSE CivilFromDays(CHOOSE n \in hits : \A k \in hits : n <= k))

\* The loops over y, m and d visit the valid dates of the three years in
\* ascending order (a day the month does not have is skipped) and return the
\* first whose conversion is lunar.
Lunar2SolarOf(key) ==
    Strict({n \in SearchDays(key) : Solar2LunarDay(n) = key},
           LAMBDA hits :
             IF hits = {} THEN Null
             ELSE CivilFromDays(CHOOSE n \in hits : \A k \in hits : n <= k))

lunar2solar(lunar) ==
    IF lunar = Null THEN TypeError ELSE Strict(LunarKey(lunar), Lunar2SolarOf)

RECURSIVE ClampLoop(_, _)
\* while (targetDay > 0) { if (lunar2solar({year, month, day: targetDay,
\* isLeap})) return it; targetDay--; }  return { year, month, day, isLeap }
\* with l the adjusted lunar date, its day still the original one.
ClampLoop(l, targetDay) ==
    IF targetDay > 0
    THEN IF lunar2solar([l EXCEPT !.day = targetDay]) # Null
         THEN [l EXCEPT !.day = targetDay]
         ELSE ClampLoop(l, targetDay - 1)
    ELSE l

Min(a, b) == IF a < b THEN a ELSE b

\* ShiftLunar keeping the leap flag of the date it moves.
ShiftLunarKeepingLeap(lunar, periodValue, periodUnit) ==
    LET totalMonths == (lunar.year - 1900) * 12 + (lunar.month - 1) + periodValue
    IN  [year   |-> IF periodUnit = "year" THEN lunar.year + periodValue
                    ELSE totalMonths \div 12 + 1900,
         month  |-> IF periodUnit = "month" THEN (totalMonths % 12) + 1
                    ELSE lunar.month,
         day    |-> lunar.day,
         isLeap |-> lunar.isLeap]

\* ShiftLunar taking the leap month for the month after the regular month of
\* its number when one month is added.
ShiftLunarThroughLeap(lunar, periodValue, periodUnit) ==
    LET totalMonths == (lunar.year - 1900) * 12 + (lunar.month - 1) + periodValue
        year  == IF periodUnit = "year" THEN lunar.year + periodValue
                 ELSE totalMonths \div 12 + 1900
        month == IF periodUnit = "month" THEN (totalMonths % 12) + 1
                 ELSE lunar.month
    IN  IF /\ periodUnit = "month" /\ periodValue = 1
           /\ ~lunar.isLeap /\ leapMonth(lunar.year) = lunar.month
        THEN [lunar EXCEPT !.isLeap = TRUE]
        ELSE [year |-> year, month |-> month, day |-> lunar.day,
              isLeap |-> lunar.isLeap /\ leapMonth(year) = month]

\* The lunar date moved by whole years or months, before its day is clamped.
ShiftLunar(lunar, periodValue, periodUnit) ==
    LET totalMonths == (lunar.year - 1900) * 12 + (lunar.month - 1) + periodValue
        year  == IF periodUnit = "year" THEN lunar.year + periodValue
                 ELSE IF periodUnit = "month" THEN totalMonths \div 12 + 1900
                 ELSE lunar.year
        month == IF periodUnit = "month" THEN (totalMonths % 12) + 1
                 ELSE lunar.month
        isLeap == IF periodUnit \in {"year", "month"}
                  THEN lunar.isLeap /\ leapMonth(year) = month
                  ELSE lunar.isLeap
    IN  [year |-> year, month |-> month, day |-> lunar.day, isLeap |-> isLeap]

AddLunarPeriodOf(lunar, periodValue, periodUnit) ==
    IF periodUnit = "day"
    THEN Strict(lunar2solar(lunar),
                LAMBDA solar :
                  IF solar = Null THEN TypeError
                  ELSE Strict(CivilFromDays(MakeDay(solar.year, solar.month - 1,
                                                    solar.day + periodValue)),
                              LAMBDA date :
                                solar2lunar(date.year, date.month, date.day)))
    ELSE Strict(ShiftLunar(lunar, periodValue, periodUnit),
                LAMBDA l :
                  ClampLoop(l, Min(l.day, IF l.isLeap
                                          THEN leapDays(l.year)
                                          ELSE monthDays(l.year, l.month))))

addLunarPeriod(lunar, periodValue, periodUnit) ==
    IF lunar = Null THEN TypeError
    ELSE Strict(lunar, LAMBDA l : AddLunarPeriodOf(l, periodValue, periodUnit))

(***************************************************************************)
(* TimezoneClock                                                           *)
(***************************************************************************)

\* The timezone names of the model: UTC, two fixed-offset zones (Etc/GMT-8 is
\* eight hours east of UTC, Etc/GMT+8 eight hours west) and a name
\* Intl.DateTimeFormat rejects.
ValidTimezones == {"UTC", "Etc/GMT-8", "Etc/GMT+8"}
InvalidTimezone == "Mars/Phobos"

\* Hours east of UTC.
UtcOffset(timezone) ==
    IF timezone = "Etc/GMT-8" THEN 8
    ELSE IF timezone = "Etc/GMT+8" THEN 0 - 8
    ELSE 0

\* The calendar fields of an instant at `hours` hours east of UTC.
PartsAt(date, hours) ==
    LET local == date + hours * MS_PER_HOUR
        c     == CivilFromDays(local \div MS_PER_DAY)
    IN  [year |-> c.year, month |-> c.month, day |-> c.day,
         hour |-> (local % MS_PER_DAY) \div MS_PER_HOUR,
         rest |-> local % MS_PER_HOUR]

\* getTimezoneDateParts reading every zone as UTC.
DatePartsInUtc(date, timezone) == PartsAt(date, 0)

\* Intl.DateTimeFormat throws on an unknown timeZone and the catch block
\* decomposes in UTC.  rest stands for minute and second: the ticks past
\* the hour.
getTimezoneDateParts(date, timezone) ==
    IF timezone \in ValidTimezones
    THEN PartsAt(date, UtcOffset(timezone))
    ELSE PartsAt(date, 0)

\* getTimezoneMidnightTimestamp keeping the hour of the day.
MidnightKeepingHour(date, timezone) ==
    LET p == getTimezoneDateParts(date, timezone)
    IN  DaysFromCivil(p.year, p.month, p.day) * MS_PER_DAY
          + p.hour * MS_PER_HOUR

\* Date.UTC(year, month - 1, day, 0, 0, 0)
getTimezoneMidnightTimestamp(date, timezone) ==
    LET p == getTimezoneDateParts(date, timezone)
    IN  DaysFromCivil(p.year, p.month, p.day) * MS_PER_DAY

\* getFullYear(), getMonth() + 1 and getDate(): host-local fields, and the
\* host's zone is UTC.
LocalDate(date) == CivilFromDays(date \div MS_PER_DAY)

\* The time of day a Date keeps through setDate, setMonth and setFullYear.
TimeOfDay(date) == date % MS_PER_DAY

\* new Date(year, monthIndex, day): host-local midnight.
NewLocalDate(year, monthIndex, day) == MakeDay(year, monthIndex, day) * MS_PER_DAY

\* Date.prototype.toISOString: the UTC fields of the instant, ms the time of
\* day in ticks.
toISOString(date) ==
    LET c == CivilFromDays(date \div MS_PER_DAY)
    IN  [year |-> c.year, month |-> c.month, day |-> c.day,
         ms |-> date % MS_PER_DAY]

\* new Date(isoString)
NewDate(iso) == DaysFromCivil(iso.year, iso.month, iso.day) * MS_PER_DAY + iso.ms

\* Math.round(num / den) for den > 0: halves round up.
Round(num, den) == (2 * num + den) \div (2 * den)

(***************************************************************************)
(* ReminderEvaluator                                                       *)
(***************************************************************************)

\* A field that holds a number or nothing: <<n>> is the number n (or a
\* string Number() reads as n), <<>> is undefined, JsNull is null, and
\* NonNumeric is a value Number() turns into NaN.
Undefined == <<>>
Num(n) == <<n>>
JsNull == <<0, 0>>
NonNumeric == <<0, 0, 0>>

\* v !== undefined && v !== null && !isNaN(Number(v))
IsNumber(v) == Len(v) = 1
NumberOf(v) == v[1]

\* Number(v) of a value that is not undefined: null gives 0.
ToNumber(v) == IF v = JsNull THEN Num(0) ELSE v

\* resolveReminderSetting falling back to the legacy field when reminderValue
\* is negative.
ResolveSkippingNegative(subscription) ==
    LET unit == IF subscription.reminderUnit = "hour" THEN "hour" ELSE "day"
        legacy == IF unit = "hour" THEN subscription.reminderHours
                  ELSE subscription.reminderDays
        value == IF IsNumber(subscription.reminderValue)
                      /\ NumberOf(subscription.reminderValue) >= 0
                 THEN NumberOf(subscription.reminderValue)
                 ELSE IF IsNumber(legacy) THEN NumberOf(legacy)
                 ELSE IF unit = "hour" THEN 0 ELSE 7
    IN  [unit |-> unit, value |-> IF value < 0 THEN 0 ELSE value]

\* defaultDays is Number(reminderDays) unless reminderDays is undefined, and
\* is used unless it is NaN.  Every value is a number by then, so the final
\* test isNaN(value) never holds.
resolveReminderSetting(subscription) ==
    LET defaultDays == IF subscription.reminderDays # Undefined
                       THEN ToNumber(subscription.reminderDays) ELSE Num(7)
        unit == IF subscription.reminderUnit = "hour" THEN "hour" ELSE "day"
        value == IF unit = "hour"
                 THEN IF IsNumber(subscription.reminderValue)
                      THEN NumberOf(subscription.reminderValue)
                      ELSE IF IsNumber(subscription.reminderHours)
                      THEN NumberOf(subscription.reminderHours)
                      ELSE 0
                 ELSE IF IsNumber(subscription.reminderValue)
                      THEN NumberOf(subscription.reminderValue)
                      ELSE IF defaultDays # NonNumeric
                      THEN NumberOf(defaultDays)
                      ELSE 7
    IN  [unit |-> unit, value |-> IF value < 0 THEN 0 ELSE value]

\* shouldTriggerReminder with a day-unit window that ends a day early.
ShouldTriggerBeforeValue(reminder, daysDiff, diffMs) ==
    IF reminder = Null THEN FALSE
    ELSE IF reminder.unit = "hour"
    THEN IF reminder.value = 0
         THEN diffMs >= 0 /\ diffMs < MS_PER_HOUR
         ELSE diffMs >= 0 /\ diffMs <= reminder.value * MS_PER_HOUR
    ELSE IF reminder.value = 0
         THEN daysDiff = 0
         ELSE daysDiff >= 0 /\ daysDiff < reminder.value

\* shouldTriggerReminder with the whole day as the hour-unit window of
\* value 0.
ShouldTriggerWholeDay(reminder, daysDiff, diffMs) ==
    IF reminder = Null THEN FALSE
    ELSE IF reminder.unit = "hour"
    THEN IF reminder.value = 0
         THEN daysDiff = 0
         ELSE diffMs >= 0 /\ diffMs <= reminder.value * MS_PER_HOUR
    ELSE IF reminder.value = 0
         THEN daysDiff = 0
         ELSE daysDiff >= 0 /\ daysDiff <= reminder.value

\* hoursDiff is the quotient diffMs / MS_PER_HOUR; it is carried as its
\* numerator diffMs, and each comparison is scaled by MS_PER_HOUR.
shouldTriggerReminder(reminder, daysDiff, diffMs) ==
    IF reminder = Null THEN FALSE
    ELSE IF reminder.unit = "hour"
    THEN IF reminder.value = 0
         THEN diffMs >= 0 /\ diffMs < MS_PER_HOUR
         ELSE diffMs >= 0 /\ diffMs <= reminder.value * MS_PER_HOUR
    ELSE IF reminder.value = 0
         THEN daysDiff = 0
         ELSE daysDiff >= 0 /\ daysDiff <= reminder.value

(***************************************************************************)
(* RenewalStateMachine: checkExpiringSubscriptions                         *)
(*                                                                         *)
(* A subscription is a record: id, isActive, autoRenew, useLunar,          *)
(* subscriptionMode, periodValue (0 when missing), periodUnit ("" when     *)
(* missing), startDate and lastPaymentDate (an ISO string or Null),        *)
(* expiryDate (an ISO string), amount, reminderUnit, reminderValue,        *)
(* reminderDays, reminderHours, paymentHistory.                            *)
(***************************************************************************)

\* The result of a step that may throw.
Threw == [threw |-> TRUE]
Ok(v) == [threw |-> FALSE, value |-> v]

\* targetDate of the solar branch: setDate, setMonth or setFullYear on a copy
\* of baseDate, which keeps its time of day.
AddSolarPeriod(baseDate, periodValue, periodUnit) ==
    LET d == LocalDate(baseDate)
        day == IF periodUnit = "day"
               THEN MakeDay(d.year, d.month - 1, d.day + periodValue)
               ELSE IF periodUnit = "month"
               THEN MakeDay(d.year, d.month - 1 + periodValue, d.day)
               ELSE IF periodUnit = "year"
               THEN MakeDay(d.year + periodValue, d.month - 1, d.day)
               ELSE MakeDay(d.year, d.month - 1, d.day)
    IN  day * MS_PER_DAY + TimeOfDay(baseDate)

\* targetDate of the lunar branch.  addLunarPeriod throws on a null
\* lunarBase, lunar2solar on a null nextLunar, and solarNext.year on a null
\* solarNext.
AddLunarPeriodToDate(baseDate, periodValue, periodUnit) ==
    Strict(LocalDate(baseDate),
      LAMBDA solarBase :
        Strict(addLunarPeriod(solar2lunar(solarBase.year, solarBase.month,
                                          solarBase.day),
                              periodValue, periodUnit),
          LAMBDA nextLunar :
            IF nextLunar = TypeError THEN Threw
            ELSE Strict(lunar2solar(nextLunar),
                   LAMBDA solarNext :
                     IF solarNext = TypeError \/ solarNext = Null THEN Threw
                     ELSE Ok(NewLocalDate(solarNext.year, solarNext.month - 1,
                                          solarNext.day)))))

addOnePeriod(subscription, baseDate) ==
    IF subscription.useLunar
    THEN AddLunarPeriodToDate(baseDate, subscription.periodValue,
                              subscription.periodUnit)
    ELSE Ok(AddSolarPeriod(baseDate, subscription.periodValue,
                           subscription.periodUnit))

\* DaysDiff counting one day more.
DaysDiffOneMore(date, currentMidnight, timezone) ==
    Round(getTimezoneMidnightTimestamp(date, timezone) - currentMidnight,
          MS_PER_DAY) + 1

\* Math.round((midnight of date - currentMidnight) / MS_PER_DAY)
DaysDiff(date, currentMidnight, timezone) ==
    Round(getTimezoneMidnightTimestamp(date, timezone) - currentMidnight,
          MS_PER_DAY)

\* RenewStep leaving newStartDate at the first base.
RenewStepKeepingStart(s, subscription, currentMidnight, timezone) ==
    LET base == IF s.periodsAdded > 0 THEN s.newExpiryDate ELSE s.newStartDate
    IN  Strict(addOnePeriod(subscription, base),
          LAMBDA target :
            IF target.threw THEN [s EXCEPT !.threw = TRUE]
            ELSE [newStartDate  |-> s.newStartDate,
                  newExpiryDate |-> target.value,
                  periodsAdded  |-> s.periodsAdded + 1,
                  daysDiff      |-> DaysDiff(target.value, currentMidnight,
                                             timezone),
                  threw         |-> FALSE])

\* One turn of the do-while: s = [newStartDate, newExpiryDate, periodsAdded,
\* daysDiff, threw].
RenewStep(s, subscription, currentMidnight, timezone) ==
    LET base == IF s.periodsAdded > 0 THEN s.newExpiryDate ELSE s.newStartDate
    IN  Strict(addOnePeriod(subscription, base),
          LAMBDA target :
            IF target.threw THEN [s EXCEPT !.threw = TRUE]
            ELSE [newStartDate  |-> base,
                  newExpiryDate |-> target.value,
                  periodsAdded  |-> s.periodsAdded + 1,
                  daysDiff      |-> DaysDiff(target.value, currentMidnight,
                                             timezone),
                  threw         |-> FALSE])

RECURSIVE RenewLoop(_, _, _, _)
\* RenewLoop going on while (daysDiff <= 0).
RenewLoopPastToday(s, subscription, currentMidnight, timezone) ==
    Strict(RenewStep(s, subscription, currentMidnight, timezone),
      LAMBDA t :
        IF ~t.threw /\ t.daysDiff <= 0
        THEN RenewLoop(t, subscription, currentMidnight, timezone)
        ELSE t)

\* do { ... } while (daysDiff < 0)
RenewLoop(s, subscription, currentMidnight, timezone) ==
    Strict(RenewStep(s, subscription, currentMidnight, timezone),
      LAMBDA t :
        IF ~t.threw /\ t.daysDiff < 0
        THEN RenewLoop(t, subscription, currentMidnight, timezone)
        ELSE t)

\* subscription.subscriptionMode || 'cycle'
ModeOf(subscription) ==
    IF subscription.subscriptionMode = "" THEN "cycle"
    ELSE subscription.subscriptionMode

\* Renewal starting from the old expiry date in either mode.
RenewalFromExpiry(subscription, currentTime, currentMidnight, timezone) ==
    Strict(NewDate(subscription.expiryDate),
      LAMBDA start :
        RenewLoop([newStartDate |-> start, newExpiryDate |-> start,
                   periodsAdded |-> 0, daysDiff |-> 0, threw |-> FALSE],
                  subscription, currentMidnight, timezone))

\* The base point and the loop.
Renewal(subscription, currentTime, currentMidnight, timezone) ==
    Strict(IF ModeOf(subscription) = "reset" THEN currentTime
           ELSE NewDate(subscription.expiryDate),
      LAMBDA start :
        RenewLoop([newStartDate |-> start, newExpiryDate |-> start,
                   periodsAdded |-> 0, daysDiff |-> 0, threw |-> FALSE],
                  subscription, currentMidnight, timezone))

\* expiryMidnight read a day early, and as a solar date whatever useLunar.
ExpiryMidnightDayBefore(subscription, expiryDate, timezone) ==
    Ok(getTimezoneMidnightTimestamp(expiryDate, timezone) - MS_PER_DAY)

\* expiryMidnight: the lunar reading of the expiry date, or the solar one when
\* the subscription is solar or solar2lunar returns null.
ExpiryMidnight(subscription, expiryDate, timezone) ==
    IF subscription.useLunar
    THEN Strict(LocalDate(expiryDate),
           LAMBDA d :
             Strict(solar2lunar(d.year, d.month, d.day),
               LAMBDA lunar :
                 IF lunar # Null
                 THEN Strict(lunar2solar(lunar),
                        LAMBDA solar :
                          IF solar = Null THEN Threw
                          ELSE Ok(getTimezoneMidnightTimestamp(
                                    NewLocalDate(solar.year, solar.month - 1,
                                                 solar.day), timezone)))
                 ELSE Ok(getTimezoneMidnightTimestamp(expiryDate, timezone))))
    ELSE Ok(getTimezoneMidnightTimestamp(expiryDate, timezone))

\* subscription.amount || 0
AmountOrZero(subscription) ==
    IF IsNumber(subscription.amount) THEN subscription.amount ELSE Num(0)

\* AutoPaymentRecord with the old expiry date as periodStart.
AutoPaymentRecordFromExpiry(subscription, currentTime, r) ==
    [id          |-> [time |-> currentTime,
                      rand |-> Len(subscription.paymentHistory) + 1],
     date        |-> toISOString(currentTime),
     amount      |-> AmountOrZero(subscription),
     type        |-> "auto",
     note        |-> [mode   |-> ModeOf(subscription),
                      filled |-> IF r.periodsAdded > 1 THEN r.periodsAdded
                                 ELSE 0],
     periodStart |-> subscription.expiryDate,
     periodEnd   |-> toISOString(r.newExpiryDate)]

\* The payment record of an auto-renewal.  id is Date.now() and a random
\* suffix: a value no other record of the list has.  note names the mode
\* and, when periodsAdded > 1, the number of periods (filled, else 0).
AutoPaymentRecord(subscription, currentTime, r) ==
    [id          |-> [time |-> currentTime,
                      rand |-> Len(subscription.paymentHistory) + 1],
     date        |-> toISOString(currentTime),
     amount      |-> AmountOrZero(subscription),
     type        |-> "auto",
     note        |-> [mode   |-> ModeOf(subscription),
                      filled |-> IF r.periodsAdded > 1 THEN r.periodsAdded
                                 ELSE 0],
     periodStart |-> toISOString(r.newStartDate),
     periodEnd   |-> toISOString(r.newExpiryDate)]

\* { ...subscription, daysRemaining, hoursRemaining: Math.round(diffHours) }
ReminderEntry(subscription, daysDiff, diffMs) ==
    [subscription   |-> subscription,
     daysRemaining  |-> daysDiff,
     hoursRemaining |-> Round(diffMs, MS_PER_HOUR)]

\* push putting the record in front of the list.
PushedInFront(paymentHistory, paymentRecord) ==
    <<paymentRecord>> \o paymentHistory

\* paymentHistory.push(paymentRecord)
Pushed(paymentHistory, paymentRecord) == Append(paymentHistory, paymentRecord)

\* Renewed deciding the reminder against the old expiry date.
RenewedRemindingOfOld(subscription, reminderSetting, currentTime, r) ==
    IF r.threw THEN [status |-> "threw"]
    ELSE LET updatedSubscription ==
                 [subscription EXCEPT
                    !.startDate = toISOString(r.newStartDate),
                    !.expiryDate = toISOString(r.newExpiryDate),
                    !.lastPaymentDate = toISOString(currentTime),
                    !.paymentHistory =
                        Pushed(subscription.paymentHistory,
                               AutoPaymentRecord(subscription, currentTime, r))]
             diffMs == NewDate(subscription.expiryDate) - currentTime
         IN  [status   |-> "renewed",
              updated  |-> updatedSubscription,
              reminder |-> IF shouldTriggerReminder(reminderSetting, r.daysDiff,
                                                    diffMs)
                           THEN <<ReminderEntry(updatedSubscription, r.daysDiff,
                                                diffMs)>>
                           ELSE <<>>]

\* The auto-renewal branch, r the state the loop ended in.
Renewed(subscription, reminderSetting, currentTime, r) ==
    IF r.threw THEN [status |-> "threw"]
    ELSE LET updatedSubscription ==
                 [subscription EXCEPT
                    !.startDate = toISOString(r.newStartDate),
                    !.expiryDate = toISOString(r.newExpiryDate),
                    !.lastPaymentDate = toISOString(currentTime),
                    !.paymentHistory =
                        Pushed(subscription.paymentHistory,
                               AutoPaymentRecord(subscription, currentTime, r))]
             diffMs == r.newExpiryDate - currentTime
         IN  [status   |-> "renewed",
              updated  |-> updatedSubscription,
              reminder |-> IF shouldTriggerReminder(reminderSetting, r.daysDiff,
                                                    diffMs)
                           THEN <<ReminderEntry(updatedSubscription, r.daysDiff,
                                                diffMs)>>
                           ELSE <<>>]

\* The ordinary branch without the notice of an expired subscription.
CheckedByReminderOnly(subscription, reminderSetting, daysDiff, diffMs) ==
    [status   |-> "checked",
     reminder |-> IF shouldTriggerReminder(reminderSetting, daysDiff, diffMs)
                  THEN <<ReminderEntry(subscription, daysDiff, diffMs)>>
                  ELSE <<>>]

\* The ordinary branch: not expired, or expired and not renewed.
Checked(subscription, reminderSetting, daysDiff, diffMs) ==
    [status   |-> "checked",
     reminder |-> IF daysDiff < 0 /\ subscription.autoRenew = FALSE
                  THEN <<ReminderEntry(subscription, daysDiff, diffMs)>>
                  ELSE IF shouldTriggerReminder(reminderSetting, daysDiff, diffMs)
                  THEN <<ReminderEntry(subscription, daysDiff, diffMs)>>
                  ELSE <<>>]

\* The body of the for loop for one subscription: what it adds to
\* updatedSubscriptions and to expiringSubscriptions, or that it threw.
ProcessSubscription(subscription, currentTime, currentMidnight, timezone) ==
    IF subscription.isActive = FALSE THEN [status |-> "skipped", reminder |-> <<>>]
    ELSE Strict(ExpiryMidnight(subscription, NewDate(subscription.expiryDate),
                               timezone),
      LAMBDA expiryMidnight :
        IF expiryMidnight.threw THEN [status |-> "threw"]
        ELSE LET daysDiff == Round(expiryMidnight.value - currentMidnight,
                                   MS_PER_DAY)
                 diffMs == NewDate(subscription.expiryDate) - currentTime
                 reminderSetting == resolveReminderSetting(subscription)
             IN  IF /\ daysDiff < 0
                    /\ subscription.periodValue # 0
                    /\ subscription.periodUnit # ""
                    /\ subscription.autoRenew # FALSE
                 THEN Strict(Renewal(subscription, currentTime, currentMidnight,
                                     timezone),
                        LAMBDA r : Renewed(subscription, reminderSetting,
                                           currentTime, r))
                 ELSE Checked(subscription, reminderSetting, daysDiff, diffMs))

\* Merged without the comparison of ids.
MergedAnyId(subs, results) ==
    [i \in 1..Len(subs) |->
       LET hits == {j \in 1..Len(subs) : results[j].status = "renewed"}
       IN  IF hits = {} THEN subs[i]
           ELSE results[CHOOSE j \in hits : \A k \in hits : j <= k].updated]

\* mergedSubscriptions: each subscription replaced by the first updated one
\* with its id.
Merged(subs, results) ==
    [i \in 1..Len(subs) |->
       LET hits == {j \in 1..Len(subs) :
                      /\ results[j].status = "renewed"
                      /\ results[j].updated.id = subs[i].id}
       IN  IF hits = {} THEN subs[i]
           ELSE results[CHOOSE j \in hits : \A k \in hits : j <= k].updated]

RECURSIVE Concat(_, _)
\* The reminder entries of results[i..], in order.
Concat(results, i) ==
    IF i > Len(results) THEN <<>>
    ELSE results[i].reminder \o Concat(results, i + 1)

\* The whole pass from the store it reads: what it leaves in the store and the
\* list it notifies.  An exception anywhere in the try block ends the pass in
\* its catch block: nothing is saved and nothing is sent.  Building the hour
\* formatter (Intl.DateTimeFormat) throws on an unknown timezone.
CheckResult(subs, currentTime, timezone) ==
    IF timezone \notin ValidTimezones
    THEN [ok |-> FALSE, saved |-> FALSE, store |-> subs,
          expiringSubscriptions |-> <<>>]
    ELSE Strict(getTimezoneMidnightTimestamp(currentTime, timezone),
      LAMBDA currentMidnight :
        Strict([i \in 1..Len(subs) |->
                  ProcessSubscription(subs[i], currentTime, currentMidnight,
                                      timezone)],
          LAMBDA results :
            IF \E i \in 1..Len(subs) : results[i].status = "threw"
            THEN [ok |-> FALSE, saved |-> FALSE, store |-> subs,
                  expiringSubscriptions |-> <<>>]
            ELSE IF \E i \in 1..Len(subs) : results[i].status = "renewed"
            THEN [ok |-> TRUE, saved |-> TRUE, store |-> Merged(subs, results),
                  expiringSubscriptions |-> Concat(results, 1)]
            ELSE [ok |-> TRUE, saved |-> FALSE, store |-> subs,
                  expiringSubscriptions |-> Concat(results, 1)]))

RECURSIVE SortedByDays(_)
\* Array.prototype.sort by daysRemaining: stable, so an entry goes after the
\* entries before it that are no later.
SortedByDays(list) ==
    IF Len(list) <= 1 THEN list
    ELSE LET front == SortedByDays(SubSeq(list, 1, Len(list) - 1))
             x == list[Len(list)]
             k == Cardinality({i \in 1..Len(front) :
                                 front[i].daysRemaining <= x.daysRemaining})
         IN  SubSeq(front, 1, k) \o <<x>> \o SubSeq(front, k + 1, Len(front))

(***************************************************************************)
(* The stored subscriptions the model starts from: what createSubscription *)
(* leaves in the store, some time later.                                   *)
(***************************************************************************)

\* The instant of a calendar day and a time of day in UTC.
At(year, month, day, hour, half) ==
    DaysFromCivil(year, month, day) * MS_PER_DAY + hour * MS_PER_HOUR
      + half * (MS_PER_HOUR \div 2)

CreatedAt == At(2021, 6, 1, 8, 0)

\* newSubscription: the record createSubscription stores at currentTime.
\* given = [isActive, autoRenew, useLunar, subscriptionMode, periodValue,
\* periodUnit, expiryDate, startDate, amount, reminderUnit, reminderValue],
\* its expiryDate the one the fast-forward has left.
CreatedSubscription(id, given, currentTime) ==
    LET reminderSetting == resolveReminderSetting(
                             [reminderUnit  |-> given.reminderUnit,
                              reminderValue |-> given.reminderValue,
                              reminderHours |-> Undefined,
                              reminderDays  |-> Undefined])
        initialPaymentDate == IF given.startDate = Null
                              THEN toISOString(currentTime)
                              ELSE given.startDate
    IN  [id               |-> id,
         subscriptionMode |-> IF given.subscriptionMode = "" THEN "cycle"
                              ELSE given.subscriptionMode,
         startDate        |-> given.startDate,
         expiryDate       |-> given.expiryDate,
         periodValue      |-> IF given.periodValue = 0 THEN 1
                              ELSE given.periodValue,
         periodUnit       |-> IF given.periodUnit = "" THEN "month"
                              ELSE given.periodUnit,
         reminderUnit     |-> reminderSetting.unit,
         reminderValue    |-> Num(reminderSetting.value),
         reminderDays     |-> IF reminderSetting.unit = "day"
                              THEN Num(reminderSetting.value) ELSE Undefined,
         reminderHours    |-> IF reminderSetting.unit = "hour"
                              THEN Num(reminderSetting.value) ELSE Undefined,
         amount           |-> IF given.amount = Num(0) THEN Undefined
                              ELSE given.amount,
         lastPaymentDate  |-> initialPaymentDate,
         paymentHistory   |->
             IF IsNumber(given.amount) /\ given.amount # Num(0)
             THEN << [id          |-> [time |-> currentTime, rand |-> 0],
                      date        |-> initialPaymentDate,
                      amount      |-> given.amount,
                      type        |-> "initial",
                      note        |-> [mode |-> "initial", filled |-> 0],
                      periodStart |-> initialPaymentDate,
                      periodEnd   |-> given.expiryDate] >>
             ELSE <<>>,
         isActive         |-> given.isActive # FALSE,
         autoRenew        |-> given.autoRenew # FALSE,
         useLunar         |-> given.useLunar,
         createdAt        |-> toISOString(currentTime)]

\* A subscription created at CreatedAt, when its expiry date was still ahead.
NewSubscription(id, given) == CreatedSubscription(id, given, CreatedAt)

\* The clock readings the model starts at: 21 April 2023, the second day of
\* the third lunar month after the leap second month of 2023.
NowChoices == {At(2023, 4, 21, 2, 1), At(2023, 4, 21, 17, 0)}

\* The expiry dates of the stored subscriptions.
ExpiryPast == {At(2023, 4, 20, 20, 0), At(2023, 4, 19, 12, 0),
               At(2023, 3, 21, 0, 0), At(2022, 1, 31, 9, 1)}
ExpiryNear == {At(2023, 4, 21, 3, 0), At(2023, 4, 22, 6, 0)}
ExpiryOutOfRange == At(1899, 12, 31, 0, 0)

Periods == {[periodValue |-> 1, periodUnit |-> "day"],
            [periodValue |-> 7, periodUnit |-> "day"],
            [periodValue |-> 1, periodUnit |-> "month"],
            [periodValue |-> 1, periodUnit |-> "year"]}

Extras == {[startDate |-> Null, amount |-> Undefined,
            reminderUnit |-> "day", reminderValue |-> Num(1)],
           [startDate |-> toISOString(At(2021, 5, 31, 0, 0)), amount |-> Num(12),
            reminderUnit |-> "hour", reminderValue |-> Num(24)]}

\* The clock is followed for one step of ClockStepDays days, from the
\* earlier reading.
ClockStepDays == 9
LastNow == At(2023, 4, 21, 12, 0) + ClockStepDays * MS_PER_DAY

\* The shortest a period of the unit lasts, in days.
MinDaysOf(periodUnit) ==
    IF periodUnit = "day" THEN 1 ELSE IF periodUnit = "month" THEN 28 ELSE 353

\* The most turns of the renewal loop the model follows.
MaxCatchUp == 20

\* No more than MaxCatchUp periods between the expiry date and the last
\* clock reading of the model.
WithinCatchUp(expiry, period) ==
    (LastNow - expiry) \div
      (period.periodValue * MinDaysOf(period.periodUnit) * MS_PER_DAY) + 2
        <= MaxCatchUp

Given(flags, useLunar, mode, period, expiry, extra) ==
    [isActive |-> flags[1], autoRenew |-> flags[2], useLunar |-> useLunar,
     subscriptionMode |-> mode, periodValue |-> period.periodValue,
     periodUnit |-> period.periodUnit, expiryDate |-> toISOString(expiry),
     startDate |-> extra.startDate, amount |-> extra.amount,
     reminderUnit |-> extra.reminderUnit,
     reminderValue |-> extra.reminderValue]

\* Active subscriptions on auto-renewal; the lunar ones with one of Extras.
AutoGivenOf(useLunar, extras) ==
    {Given(<<TRUE, TRUE>>, useLunar, mode, period, expiry, extra) :
       mode \in {"cycle", "reset"}, period \in Periods,
       expiry \in ExpiryPast \cup ExpiryNear, extra \in extras}

AutoGiven ==
    AutoGivenOf(FALSE, Extras)
      \cup AutoGivenOf(TRUE, {e \in Extras : e.amount # Undefined})

\* Subscriptions renewed by hand, and inactive ones.
OtherGiven ==
    {Given(flags, useLunar, "cycle", [periodValue |-> 1, periodUnit |-> "month"],
           expiry, extra) :
       flags \in {<<TRUE, FALSE>>, <<FALSE, TRUE>>}, useLunar \in BOOLEAN,
       expiry \in {At(2023, 4, 19, 12, 0), At(2023, 4, 22, 6, 0)},
       extra \in Extras}

\* Lunar subscriptions whose expiry date is outside the lunar calendar's
\* range: createSubscription stores them as they are given.
OutOfRangeGiven ==
    {Given(<<TRUE, TRUE>>, TRUE, mode, period, ExpiryOutOfRange, extra) :
       mode \in {"cycle", "reset"},
       period \in {[periodValue |-> 1, periodUnit |-> "month"],
                   [periodValue |-> 1, periodUnit |-> "day"]},
       extra \in Extras}

Givens ==
    {g \in AutoGiven :
       WithinCatchUp(NewDate(g.expiryDate),
                     [periodValue |-> g.periodValue, periodUnit |-> g.periodUnit])}
      \cup OtherGiven \cup OutOfRangeGiven

\* The subscriptions stored next to another one.
Companions ==
    {Given(<<TRUE, TRUE>>, FALSE, "cycle",
           [periodValue |-> 1, periodUnit |-> "month"],
           At(2023, 3, 21, 0, 0), CHOOSE e \in Extras : e.amount # Undefined),
     Given(<<TRUE, FALSE>>, FALSE, "cycle",
           [periodValue |-> 1, periodUnit |-> "year"],
           At(2023, 4, 22, 6, 0), CHOOSE e \in Extras : e.amount = Undefined)}

Partners ==
    {g \in Givens :
       /\ g.periodUnit = "month"
       /\ g.startDate = Null
       /\ g.isActive /\ g.autoRenew
       /\ NewDate(g.expiryDate) \in {At(2023, 4, 19, 12, 0), ExpiryOutOfRange}}

Stores ==
    {<<NewSubscription(1, g)>> : g \in Givens}
      \cup {<<NewSubscription(1, g), NewSubscription(2, c)>> :
              g \in Partners, c \in Companions}
      \cup {<<NewSubscription(1, c), NewSubscription(2, g)>> :
              g \in Partners, c \in Companions}

(***************************************************************************)
(* SubscriptionStore: the operations of the API on the stored list         *)
(***************************************************************************)

\* list.findIndex(x => x.id === id), of the subscriptions or of a payment
\* history: the first index, 0 for -1.
IndexOf(subs, id) ==
    IF \E i \in 1..Len(subs) : subs[i].id = id
    THEN CHOOSE i \in 1..Len(subs) :
           subs[i].id = id /\ \A j \in 1..(i - 1) : subs[j].id # id
    ELSE 0

\* What an operation answers: success, and the list it has saved (the list
\* it read when it saved nothing).
Rejected(subs) == [success |-> FALSE, store |-> subs]
Done(subs) == [success |-> TRUE, store |-> subs]

\* Date.now() of a payment record written by hand: currentTime and the
\* milliseconds gone since, a value no record of the list has.
RecordId(paymentHistory, currentTime) ==
    LET used == {paymentHistory[i].id.rand : i \in 1..Len(paymentHistory)}
    IN  [time |-> currentTime,
         rand |-> IF used = {} THEN 1
                  ELSE 1 + CHOOSE n \in used : \A k \in used : k <= n]

\* ManualStartDate starting from the stored expiry date whether it has
\* passed or not.
ManualStartDateFromExpiry(subscription, paymentDate) ==
    IF subscription.subscriptionMode = "reset"
    THEN paymentDate
    ELSE NewDate(subscription.expiryDate)

\* newStartDate of manualRenewSubscription.
ManualStartDate(subscription, paymentDate) ==
    IF subscription.subscriptionMode = "reset"
    THEN paymentDate
    ELSE IF NewDate(subscription.expiryDate) > paymentDate
    THEN NewDate(subscription.expiryDate)
    ELSE paymentDate

RECURSIVE AddLunarPeriods(_, _, _, _)
\* for (i = 0; i < periodMultiplier; i++) nextLunar = addLunarPeriod(nextLunar,
\* periodValue, periodUnit), which throws on a null nextLunar.
AddLunarPeriods(lunar, periodValue, periodUnit, times) ==
    IF times = 0 THEN lunar
    ELSE Strict(addLunarPeriod(lunar, periodValue, periodUnit),
           LAMBDA nextLunar :
             IF nextLunar = TypeError THEN TypeError
             ELSE AddLunarPeriods(nextLunar, periodValue, periodUnit,
                                  times - 1))

\* ManualExpiryDate adding the period once, whatever periodMultiplier.
ManualExpiryDateOnce(subscription, newStartDate, periodMultiplier) ==
    addOnePeriod(subscription, newStartDate)

\* newExpiryDate of manualRenewSubscription: the lunar branch adds the period
\* periodMultiplier times to the lunar date, the solar branch adds
\* periodValue * periodMultiplier once.
ManualExpiryDate(subscription, newStartDate, periodMultiplier) ==
    IF subscription.useLunar
    THEN Strict(LocalDate(newStartDate),
           LAMBDA solarStart :
             Strict(AddLunarPeriods(solar2lunar(solarStart.year,
                                                solarStart.month,
                                                solarStart.day),
                                    subscription.periodValue,
                                    subscription.periodUnit, periodMultiplier),
               LAMBDA nextLunar :
                 IF nextLunar = TypeError THEN Threw
                 ELSE Strict(lunar2solar(nextLunar),
                        LAMBDA solar :
                          IF solar = TypeError \/ solar = Null THEN Threw
                          ELSE Ok(NewLocalDate(solar.year, solar.month - 1,
                                               solar.day)))))
    ELSE Ok(AddSolarPeriod(newStartDate,
                           subscription.periodValue * periodMultiplier,
                           subscription.periodUnit))

\* The payment record of a manual renewal, dates = [newStartDate,
\* newExpiryDate]; note is the default one.
ManualPaymentRecord(subscription, options, currentTime, paymentDate, dates) ==
    [id          |-> RecordId(subscription.paymentHistory, currentTime),
     date        |-> toISOString(paymentDate),
     amount      |-> IF options.amount # Undefined THEN options.amount
                     ELSE AmountOrZero(subscription),
     type        |-> "manual",
     note        |-> [mode |-> "manual", filled |-> 0],
     periodStart |-> toISOString(dates.newStartDate),
     periodEnd   |-> toISOString(dates.newExpiryDate)]

\* options = [paymentDate (an ISO string or Null), amount, periodMultiplier
\* (0 when missing)].  An exception is caught and answered as a failure.
manualRenewSubscription(subs, id, options, currentTime) ==
    LET index == IndexOf(subs, id)
    IN  IF index = 0 THEN Rejected(subs)
        ELSE LET subscription == subs[index]
                 paymentDate == IF options.paymentDate # Null
                                THEN NewDate(options.paymentDate)
                                ELSE currentTime
                 periodMultiplier == IF options.periodMultiplier = 0 THEN 1
                                     ELSE options.periodMultiplier
                 newStartDate == ManualStartDate(subscription, paymentDate)
             IN  IF subscription.periodValue = 0 \/ subscription.periodUnit = ""
                 THEN Rejected(subs)
                 ELSE Strict(ManualExpiryDate(subscription, newStartDate,
                                              periodMultiplier),
                        LAMBDA r :
                          IF r.threw THEN Rejected(subs)
                          ELSE Done([subs EXCEPT ![index] =
                                 [subscription EXCEPT
                                    !.startDate = toISOString(newStartDate),
                                    !.expiryDate = toISOString(r.value),
                                    !.lastPaymentDate = toISOString(paymentDate),
                                    !.paymentHistory =
                                       Pushed(subscription.paymentHistory,
                                              ManualPaymentRecord(
                                                subscription, options,
                                                currentTime, paymentDate,
                                                [newStartDate |-> newStartDate,
                                                 newExpiryDate |-> r.value]))]]))

\* The list without its element at index: splice(index, 1).
Splice(list, index) ==
    [i \in 1..(Len(list) - 1) |-> IF i < index THEN list[i] ELSE list[i + 1]]

\* [...list].sort((a, b) => Key(b) - Key(a))[0]: the sort is stable, so of
\* the records with the greatest key it is the first of the list.
FirstOfLatest(list, Key(_)) ==
    list[CHOOSE i \in 1..Len(list) :
           /\ \A j \in 1..Len(list) : Key(list[j]) <= Key(list[i])
           /\ \A j \in 1..(i - 1) : Key(list[j]) < Key(list[i])]

PeriodEndOf(payment) == NewDate(payment.periodEnd)
DateOf(payment) == NewDate(payment.date)

\* RolledBackExpiry taking the periodStart of the deleted record whatever
\* records remain.
RolledBackExpiryToStart(remaining, deletedPayment) ==
    deletedPayment.periodStart

\* newExpiryDate of deletePaymentRecord; every record of the model has a
\* periodEnd and a periodStart.
RolledBackExpiry(remaining, deletedPayment) ==
    IF Len(remaining) > 0
    THEN FirstOfLatest(remaining, PeriodEndOf).periodEnd
    ELSE deletedPayment.periodStart

\* newLastPaymentDate of deletePaymentRecord; createdAt is never missing.
RolledBackLastPayment(subscription, remaining) ==
    IF Len(remaining) > 0
    THEN FirstOfLatest(remaining, DateOf).date
    ELSE IF subscription.startDate # Null THEN subscription.startDate
    ELSE subscription.createdAt

deletePaymentRecord(subs, subscriptionId, paymentId) ==
    LET index == IndexOf(subs, subscriptionId)
    IN  IF index = 0 THEN Rejected(subs)
        ELSE LET subscription == subs[index]
                 paymentIndex == IndexOf(subscription.paymentHistory,
                                         paymentId)
             IN  IF paymentIndex = 0 THEN Rejected(subs)
                 ELSE Strict(Splice(subscription.paymentHistory, paymentIndex),
                        LAMBDA remaining :
                          Done([subs EXCEPT ![index] =
                            [subscription EXCEPT
                               !.expiryDate =
                                  RolledBackExpiry(
                                    remaining,
                                    subscription.paymentHistory[paymentIndex]),
                               !.paymentHistory = remaining,
                               !.lastPaymentDate =
                                  RolledBackLastPayment(subscription,
                                                        remaining)]]))

\* paymentData = [date (an ISO string or Null), amount, note (Null when
\* undefined)]: a missing date keeps the one of the record, an undefined
\* amount or note keeps the one of the record.
UpdatedPayment(payment, paymentData) ==
    [payment EXCEPT
       !.date = IF paymentData.date # Null THEN paymentData.date ELSE @,
       !.amount = IF paymentData.amount # Undefined THEN paymentData.amount
                  ELSE @,
       !.note = IF paymentData.note # Null THEN paymentData.note ELSE @]

updatePaymentRecord(subs, subscriptionId, paymentId, paymentData) ==
    LET index == IndexOf(subs, subscriptionId)
    IN  IF index = 0 THEN Rejected(subs)
        ELSE LET subscription == subs[index]
                 paymentIndex == IndexOf(subscription.paymentHistory,
                                         paymentId)
             IN  IF paymentIndex = 0 THEN Rejected(subs)
                 ELSE Strict([subscription.paymentHistory
                                EXCEPT ![paymentIndex] =
                                  UpdatedPayment(@, paymentData)],
                        LAMBDA paymentHistory :
                          Done([subs EXCEPT ![index] =
                            [subscription EXCEPT
                               !.paymentHistory = paymentHistory,
                               !.lastPaymentDate =
                                  FirstOfLatest(paymentHistory, DateOf).date]]))

\* subscriptions.filter(s => s.id !== id)
Filtered(subs, id) ==
    SelectSeq(subs, LAMBDA s : s.id # id)

\* deleteSubscription answering success whatever the filter has removed.
deleteSubscriptionUnguarded(subs, id) ==
    Done(Filtered(subs, id))

deleteSubscription(subs, id) ==
    IF Len(Filtered(subs, id)) = Len(subs) THEN Rejected(subs)
    ELSE Done(Filtered(subs, id))

\* updatedAt is not among the fields the model follows.
toggleSubscriptionStatus(subs, id, isActive) ==
    LET index == IndexOf(subs, id)
    IN  IF index = 0 THEN Rejected(subs)
        ELSE Done([subs EXCEPT ![index].isActive = isActive])

RECURSIVE SolarForward(_, _, _, _)
\* while (expiryDate < currentTime) { setDate, setMonth or setFullYear }
SolarForward(expiryDate, periodValue, periodUnit, currentTime) ==
    IF expiryDate < currentTime
    THEN SolarForward(AddSolarPeriod(expiryDate, periodValue, periodUnit),
                      periodValue, periodUnit, currentTime)
    ELSE expiryDate

RECURSIVE LunarForward(_, _, _, _, _)
\* while (expiryDate <= currentTime) { lunar = addLunarPeriod(lunar, ..);
\* solar = lunar2solar(lunar); expiryDate = new Date(solar.year,
\* solar.month - 1, solar.day) }
LunarForward(lunar, expiryDate, periodValue, periodUnit, currentTime) ==
    IF expiryDate <= currentTime
    THEN Strict(addLunarPeriod(lunar, periodValue, periodUnit),
           LAMBDA nextLunar :
             IF nextLunar = TypeError THEN Threw
             ELSE Strict(lunar2solar(nextLunar),
                    LAMBDA solar :
                      IF solar = TypeError \/ solar = Null THEN Threw
                      ELSE LunarForward(nextLunar,
                                        NewLocalDate(solar.year,
                                                     solar.month - 1,
                                                     solar.day),
                                        periodValue, periodUnit, currentTime)))
    ELSE Ok(expiryDate)

\* The expiry date createSubscription stores for the request: the one given,
\* moved forward by whole periods when it has passed and the request carries
\* a period (periodValue 0 and periodUnit "" stand for a missing one).
ForwardedExpiry(given, currentTime) ==
    LET expiryDate == NewDate(given.expiryDate)
        d == LocalDate(expiryDate)
    IN  IF given.useLunar
        THEN Strict(solar2lunar(d.year, d.month, d.day),
               LAMBDA lunar :
                 IF lunar # Null /\ given.periodValue # 0
                      /\ given.periodUnit # ""
                 THEN Strict(LunarForward(lunar, expiryDate, given.periodValue,
                                          given.periodUnit, currentTime),
                        LAMBDA r : IF r.threw THEN Threw
                                   ELSE Ok(toISOString(r.value)))
                 ELSE Ok(given.expiryDate))
        ELSE IF expiryDate < currentTime /\ given.periodValue # 0
                  /\ given.periodUnit # ""
        THEN Ok(toISOString(SolarForward(expiryDate, given.periodValue,
                                         given.periodUnit, currentTime)))
        ELSE Ok(given.expiryDate)

\* Date.now() as the id of a new subscription: a value no stored one has.
SubscriptionId(subs) ==
    LET used == {subs[i].id : i \in 1..Len(subs)}
    IN  IF used = {} THEN 1 ELSE 1 + CHOOSE n \in used : \A k \in used : k <= n

\* body = [name, given]: the name ("" when missing) and the fields of the
\* request that the model follows, expiryDate Null when missing.
createSubscription(subs, body, currentTime) ==
    IF body.name = "" \/ body.given.expiryDate = Null THEN Rejected(subs)
    ELSE Strict(ForwardedExpiry(body.given, currentTime),
           LAMBDA r :
             IF r.threw THEN Rejected(subs)
             ELSE Done(Append(subs,
                    CreatedSubscription(
                      SubscriptionId(subs),
                      [body.given EXCEPT !.expiryDate = r.value],
                      currentTime))))

(***************************************************************************)
(* State: the store (SUBSCRIPTIONS_KV 'subscriptions'), the configured     *)
(* TIMEZONE, the clock, what the last operation answered or sent, what the *)
(* last probe of a pure function returned, and the number of requests the  *)
(* API has served.                                                         *)
(***************************************************************************)
VARIABLES subscriptions, timezone, now, last, probe, userOps

vars == <<subscriptions, timezone, now, last, probe, userOps>>

Init ==
    /\ subscriptions \in Stores
    /\ timezone \in ValidTimezones \cup {InvalidTimezone}
    /\ now \in NowChoices
    /\ last = [op |-> "none"]
    /\ probe = [op |-> "none"]
    /\ userOps = 0

\* The scheduled pass.  NOTIFICATION_HOURS is empty (the default), so the
\* list is sent whenever it is not empty.
CheckExpiringSubscriptions ==
    /\ \E r \in {CheckResult(subscriptions, now, timezone)} :
         /\ subscriptions' = r.store
         /\ last' = [op |-> "check", ok |-> r.ok, saved |-> r.saved,
                     before |-> subscriptions, at |-> now,
                     expiringSubscriptions |-> r.expiringSubscriptions,
                     sent |-> Strict(r.expiringSubscriptions, SortedByDays)]
    /\ UNCHANGED <<timezone, now, probe, userOps>>

\* Time passes.
AdvanceClock ==
    /\ now + ClockStepDays * MS_PER_DAY <= LastNow
    /\ now' = now + ClockStepDays * MS_PER_DAY
    /\ last' = [op |-> "clock"]
    /\ UNCHANGED <<subscriptions, timezone, probe, userOps>>

Next ==
    \/ CheckExpiringSubscriptions
    \/ AdvanceClock

Spec == Init /\ [][Next]_vars

(***************************************************************************)
(* The calendar on its own: conversions of single dates.                   *)
(***************************************************************************)

\* The days the conversions are probed on: ProbeSpan days from each end of
\* the supported range, and the months around the leap second month of 2023.
ProbeSpan == 45
LastDay == DaysFromCivil(2100, 12, 31)
ProbeDays ==
    (BaseDay..(BaseDay + ProbeSpan)) \cup ((LastDay - ProbeSpan)..LastDay)
      \cup (DaysFromCivil(2022, 12, 1)..DaysFromCivil(2024, 3, 1))

InitCalendar ==
    /\ subscriptions = <<>>
    /\ timezone = "UTC"
    /\ now = CreatedAt
    /\ last = [op |-> "none"]
    /\ probe = [op |-> "none"]
    /\ userOps = 0

\* solar2lunar of a day, and lunar2solar of what it returned.
RoundTrip ==
    /\ probe.op = "none"
    /\ \E n \in ProbeDays :
         \E solar \in {CivilFromDays(n)} :
           \E lunar \in {solar2lunar(solar.year, solar.month, solar.day)} :
             probe' = [op |-> "roundTrip", solar |-> solar, lunar |-> lunar,
                       back |-> lunar2solar(lunar)]
    /\ UNCHANGED <<subscriptions, timezone, now, last, userOps>>

\* The days solar2lunar alone is probed on: the days of ProbeDays, and the
\* days of 1900 before them.
EarlyDays == DaysFromCivil(1900, 1, 1)..(BaseDay - 1)

\* solar2lunar of a day of a year in 1900..2100.
Solar2Lunar ==
    /\ probe.op = "none"
    /\ \E n \in ProbeDays \cup EarlyDays :
         \E solar \in {CivilFromDays(n)} :
           probe' = [op |-> "solar2lunar", solar |-> solar,
                     lunar |-> solar2lunar(solar.year, solar.month, solar.day)]
    /\ UNCHANGED <<subscriptions, timezone, now, last, userOps>>

NextCalendar ==
    \/ RoundTrip
    \/ Solar2Lunar

SpecCalendar == InitCalendar /\ [][NextCalendar]_vars

(***************************************************************************)
(* solar2lunar on consecutive days.                                        *)
(***************************************************************************)

\* The days that have a next day in the range of the table.
SuccessorDays == BaseDay..(LastDay - 1)

\* solar2lunar of a day and of the day after it.
Successor ==
    /\ probe.op = "none"
    /\ \E n \in SuccessorDays :
         \E solar \in {CivilFromDays(n)}, after \in {CivilFromDays(n + 1)} :
           probe' = [op |-> "successor", solar |-> solar,
                     lunar |-> solar2lunar(solar.year, solar.month, solar.day),
                     next |-> solar2lunar(after.year, after.month, after.day)]
    /\ UNCHANGED <<subscriptions, timezone, now, last, userOps>>

NextSuccessor == Successor

SpecSuccessor == InitCalendar /\ [][NextSuccessor]_vars

(***************************************************************************)
(* The reminder rules on their own.                                        *)
(***************************************************************************)

\* The largest reminder value probed.
MaxReminder == 7

\* The reminder settings probed, and the differences they are probed with:
\* days from two before today to two past the largest value, and ticks from
\* two before now to one past the last hour of the largest value.
ReminderProbes ==
    [unit : {"day", "hour"}, value : {0, 1, MaxReminder}]
DaysDiffProbes == (0 - 2)..(MaxReminder + 2)
DiffMsProbes ==
    ((0 - 2)..(MS_PER_HOUR + 1))
      \cup ((MaxReminder * MS_PER_HOUR - 1)..(MaxReminder * MS_PER_HOUR + 1))

\* What a request or a stored subscription may hold in a reminder field.
FieldValues == {Undefined, JsNull, NonNumeric, Num(0 - 1), Num(0), Num(3)}

\* The subscriptions resolveReminderSetting is probed with.
SettingProbes ==
    [reminderUnit : {"hour", "day", "week", ""}, reminderValue : FieldValues,
     reminderHours : FieldValues, reminderDays : FieldValues]

InitReminder ==
    /\ subscriptions = <<>>
    /\ timezone = "UTC"
    /\ now = CreatedAt
    /\ last = [op |-> "none"]
    /\ probe = [op |-> "none"]
    /\ userOps = 0

ShouldTriggerReminder ==
    /\ probe.op = "none"
    /\ \E reminder \in ReminderProbes, daysDiff \in DaysDiffProbes,
          diffMs \in DiffMsProbes :
         probe' = [op |-> "shouldTrigger", reminder |-> reminder,
                   daysDiff |-> daysDiff, diffMs |-> diffMs,
                   result |-> shouldTriggerReminder(reminder, daysDiff,
                                                    diffMs)]
    /\ UNCHANGED <<subscriptions, timezone, now, last, userOps>>

ResolveReminderSetting ==
    /\ probe.op = "none"
    /\ \E subscription \in SettingProbes :
         probe' = [op |-> "resolve", subscription |-> subscription,
                   result |-> resolveReminderSetting(subscription)]
    /\ UNCHANGED <<subscriptions, timezone, now, last, userOps>>

NextReminder ==
    \/ ShouldTriggerReminder
    \/ ResolveReminderSetting

SpecReminder == InitReminder /\ [][NextReminder]_vars

(***************************************************************************)
(* The timezone clock on its own.                                          *)
(***************************************************************************)

\* The instants probed: three days of April 2023 at the hours around the
\* midnights of the three zones, and the turn of the year.
ClockProbes ==
    {At(2023, 4, day, hour, half) :
       day \in 20..22, hour \in {0, 7, 8, 15, 16, 23}, half \in {0, 1}}
      \cup {At(2023, 12, 31, 15, 1), At(2023, 12, 31, 23, 1),
            At(2024, 1, 1, 8, 0)}

\* getTimezoneMidnightTimestamp of two instants in one zone.
Midnights ==
    /\ probe.op = "none"
    /\ \E a \in ClockProbes, b \in ClockProbes,
          tz \in ValidTimezones \cup {InvalidTimezone} :
         probe' = [op |-> "midnights", a |-> a, b |-> b, timezone |-> tz,
                   ofA |-> getTimezoneMidnightTimestamp(a, tz),
                   ofB |-> getTimezoneMidnightTimestamp(b, tz)]
    /\ UNCHANGED <<subscriptions, timezone, now, last, userOps>>

NextClock == Midnights

SpecClock == InitReminder /\ [][NextClock]_vars

(***************************************************************************)
(* The API on its own: requests served between two passes.                 *)
(***************************************************************************)

\* An expiry date still ahead of the clock, on the last day of a month.
ExpiryAhead == At(2023, 5, 31, 6, 0)

\* Subscriptions renewed by hand.
UserGivenOf(useLunar, modes, period, expiries, extras) ==
    {Given(<<TRUE, FALSE>>, useLunar, mode, period, expiry, extra) :
       mode \in modes, expiry \in expiries, extra \in extras}

\* An expiry date passed at UserNow, and the one still ahead.
UserExpiries == {At(2023, 4, 19, 12, 0), ExpiryAhead}

\* Solar ones by the month, or by the year in cycle mode and created without
\* an amount; lunar ones in cycle mode and created with an amount, by the
\* month, or by the week with the expiry date ahead; and a lunar one outside
\* the lunar calendar.
UserGivens ==
    UserGivenOf(FALSE, {"cycle", "reset"},
                [periodValue |-> 1, periodUnit |-> "month"], UserExpiries,
                Extras)
      \cup UserGivenOf(FALSE, {"cycle"},
                       [periodValue |-> 1, periodUnit |-> "year"],
                       UserExpiries, {e \in Extras : e.amount = Undefined})
      \cup UserGivenOf(TRUE, {"cycle"},
                       [periodValue |-> 1, periodUnit |-> "month"],
                       UserExpiries, {e \in Extras : e.amount # Undefined})
      \cup UserGivenOf(TRUE, {"cycle"},
                       [periodValue |-> 7, periodUnit |-> "day"],
                       {ExpiryAhead}, {e \in Extras : e.amount # Undefined})
      \cup {g \in OutOfRangeGiven :
              g.subscriptionMode = "cycle" /\ g.periodUnit = "month"
                /\ g.amount # Undefined}

\* A manual renewal asked for with no options.
NoOptions == [paymentDate |-> Null, amount |-> Undefined, periodMultiplier |-> 0]

\* A payment made before the clock readings of the model.
PaidEarlier == At(2023, 1, 31, 10, 0)

\* Stores an earlier manual renewal has left: a solar reset subscription paid
\* for on 31 January 2023, whose history then ends with a record whose
\* period ends before that of the initial record.
RenewedStores ==
    {manualRenewSubscription(
       <<NewSubscription(1, g)>>, 1, NoOptions, PaidEarlier).store :
         g \in {u \in UserGivens : /\ u.subscriptionMode = "reset"
                                   /\ u.periodUnit = "month"
                                   /\ u.amount # Undefined
                                   /\ ~u.useLunar}}

UserStores ==
    {<<>>}
      \cup RenewedStores
      \cup {<<NewSubscription(1, g)>> : g \in UserGivens}
      \cup {<<NewSubscription(1, c), NewSubscription(2, g)>> :
              c \in {k \in Companions : k.amount # Undefined},
              g \in {u \in UserGivens : /\ u.periodUnit = "month"
                                        /\ u.subscriptionMode = "cycle"
                                        /\ u.amount # Undefined
                                        /\ ~u.useLunar}}

\* The requests served in one behaviour.
MaxUserOps == 2

\* The subscriptions the store holds at most.
MaxSubscriptions == 2

\* The largest periodMultiplier of a request.
MaxMultiplier == 2

\* The options of a manual renewal: none; an amount and several periods;
\* a payment made earlier, for nothing, and several periods.
ManualOptions ==
    {NoOptions,
     [paymentDate |-> Null, amount |-> Num(5),
      periodMultiplier |-> MaxMultiplier],
     [paymentDate |-> toISOString(PaidEarlier), amount |-> Num(0),
      periodMultiplier |-> MaxMultiplier]}

\* A request without a period: createSubscription stores the default one.
NoPeriod == [periodValue |-> 0, periodUnit |-> ""]

\* The bodies of the creations: a solar one whose expiry date passed more
\* than a year ago, a lunar one and a solar one without a period whose
\* expiry date passed days ago, a lunar one outside the lunar calendar, a
\* body without a name and one without an expiry date.
CreateBody(name, useLunar, period, expiry, amount) ==
    [name |-> name,
     given |-> Given(<<TRUE, TRUE>>, useLunar, "", period, expiry,
                     CHOOSE e \in Extras : (e.amount = Undefined) = ~amount)]

CreateBodies ==
    {CreateBody("a name", FALSE, [periodValue |-> 1, periodUnit |-> "month"],
                At(2022, 1, 31, 9, 1), TRUE),
     CreateBody("a name", TRUE, [periodValue |-> 1, periodUnit |-> "month"],
                At(2023, 4, 19, 12, 0), FALSE),
     CreateBody("a name", FALSE, NoPeriod, At(2023, 4, 19, 12, 0), TRUE),
     CreateBody("a name", TRUE, [periodValue |-> 1, periodUnit |-> "month"],
                ExpiryOutOfRange, FALSE),
     CreateBody("", FALSE, NoPeriod, ExpiryAhead, FALSE),
     [CreateBody("a name", FALSE, NoPeriod, ExpiryAhead, FALSE)
        EXCEPT !.given.expiryDate = Null]}

\* An id no subscription has, and one no payment record has.
MissingIds == {0}
MissingPaymentIds == {[time |-> 0, rand |-> 0]}

\* The ids of the payment records of the list.
PaymentIds(subs) ==
    UNION {{subs[i].paymentHistory[k].id :
              k \in 1..Len(subs[i].paymentHistory)} : i \in 1..Len(subs)}

\* The clock reading the requests are served at.
UserNow == At(2023, 4, 21, 2, 1)

InitUser ==
    /\ subscriptions \in UserStores
    /\ timezone = "UTC"
    /\ now = UserNow
    /\ last = [op |-> "none"]
    /\ probe = [op |-> "none"]
    /\ userOps = 0

\* The ids of the stored subscriptions.
StoredIds == {subscriptions[i].id : i \in 1..Len(subscriptions)}

\* The renewals asked for: of a stored subscription with any of the options,
\* and of an unknown one.
RenewRequests ==
    {[id |-> id, options |-> options] :
       id \in StoredIds, options \in ManualOptions}
      \cup {[id |-> id, options |-> NoOptions] : id \in MissingIds}

\* POST /api/subscriptions/:id/renew
ManualRenewSubscription ==
    /\ userOps < MaxUserOps
    /\ \E request \in RenewRequests :
         \E r \in {manualRenewSubscription(subscriptions, request.id,
                                           request.options, now)} :
           /\ subscriptions' = r.store
           /\ last' = [op |-> "manualRenew", ok |-> r.success,
                       before |-> subscriptions, at |-> now,
                       id |-> request.id, options |-> request.options]
    /\ userOps' = userOps + 1
    /\ UNCHANGED <<timezone, now, probe>>

\* The deletions asked for: of a record of a stored subscription, of an
\* unknown record of a stored subscription, and of a record of an unknown
\* subscription.
DeleteRequests ==
    UNION {{[id |-> subscriptions[i].id, paymentId |-> paymentId] :
              paymentId \in PaymentIds(<<subscriptions[i]>>)
                              \cup MissingPaymentIds} :
             i \in 1..Len(subscriptions)}
      \cup {[id |-> id, paymentId |-> paymentId] :
              id \in MissingIds, paymentId \in MissingPaymentIds}

\* DELETE /api/subscriptions/:id/payments/:paymentId
DeletePaymentRecord ==
    /\ userOps < MaxUserOps
    /\ \E request \in DeleteRequests :
         \E r \in {deletePaymentRecord(subscriptions, request.id,
                                       request.paymentId)} :
           /\ subscriptions' = r.store
           /\ last' = [op |-> "deletePayment", ok |-> r.success,
                       before |-> subscriptions, at |-> now,
                       id |-> request.id, paymentId |-> request.paymentId]
    /\ userOps' = userOps + 1
    /\ UNCHANGED <<timezone, now, probe>>

\* POST /api/subscriptions
CreateSubscription ==
    /\ userOps < MaxUserOps
    /\ Len(subscriptions) < MaxSubscriptions
    /\ \E body \in CreateBodies :
         \E r \in {createSubscription(subscriptions, body, now)} :
           /\ subscriptions' = r.store
           /\ last' = [op |-> "create", ok |-> r.success,
                       before |-> subscriptions, at |-> now, body |-> body]
    /\ userOps' = userOps + 1
    /\ UNCHANGED <<timezone, now, probe>>

NextUser ==
    \/ CreateSubscription
    \/ ManualRenewSubscription
    \/ DeletePaymentRecord

SpecUser == InitUser /\ [][NextUser]_vars

(***************************************************************************)
(* Every request of the API that writes the store.                         *)
(***************************************************************************)

\* What a PUT of a payment record carries: nothing, or a date, an amount
\* and a note.
PaymentData ==
    {[date |-> Null, amount |-> Undefined, note |-> Null],
     [date |-> toISOString(PaidEarlier), amount |-> Num(7),
      note |-> [mode |-> "edited", filled |-> 0]]}

\* The updates asked for: of the records DeleteRequests names.
UpdateRequests ==
    {[id |-> d.id, paymentId |-> d.paymentId, paymentData |-> paymentData] :
       d \in DeleteRequests, paymentData \in PaymentData}

\* PUT /api/subscriptions/:id/payments/:paymentId
UpdatePaymentRecord ==
    /\ userOps < MaxUserOps
    /\ \E request \in UpdateRequests :
         \E r \in {updatePaymentRecord(subscriptions, request.id,
                                       request.paymentId,
                                       request.paymentData)} :
           /\ subscriptions' = r.store
           /\ last' = [op |-> "updatePayment", ok |-> r.success,
                       before |-> subscriptions, at |-> now,
                       id |-> request.id, paymentId |-> request.paymentId,
                       paymentData |-> request.paymentData]
    /\ userOps' = userOps + 1
    /\ UNCHANGED <<timezone, now, probe>>

\* DELETE /api/subscriptions/:id
DeleteSubscription ==
    /\ userOps < MaxUserOps
    /\ \E id \in StoredIds \cup MissingIds :
         \E r \in {deleteSubscription(subscriptions, id)} :
           /\ subscriptions' = r.store
           /\ last' = [op |-> "deleteSubscription", ok |-> r.success,
                       before |-> subscriptions, at |-> now, id |-> id]
    /\ userOps' = userOps + 1
    /\ UNCHANGED <<timezone, now, probe>>

\* POST /api/subscriptions/:id/toggle-status
ToggleSubscriptionStatus ==
    /\ userOps < MaxUserOps
    /\ \E id \in StoredIds \cup MissingIds, isActive \in BOOLEAN :
         \E r \in {toggleSubscriptionStatus(subscriptions, id, isActive)} :
           /\ subscriptions' = r.store
           /\ last' = [op |-> "toggle", ok |-> r.success,
                       before |-> subscriptions, at |-> now, id |-> id,
                       isActive |-> isActive]
    /\ userOps' = userOps + 1
    /\ UNCHANGED <<timezone, now, probe>>

\* The stores the requests are served on: none, a solar subscription with a
\* payment record, and two of them.
ApiStores ==
    {s \in UserStores :
       \A i \in 1..Len(s) : ~s[i].useLunar /\ s[i].paymentHistory # <<>>
                              /\ s[i].subscriptionMode = "cycle"
                              /\ s[i].periodUnit = "month"}

InitApi ==
    /\ subscriptions \in ApiStores
    /\ timezone = "UTC"
    /\ now = UserNow
    /\ last = [op |-> "none"]
    /\ probe = [op |-> "none"]
    /\ userOps = 0

NextApi ==
    \/ CreateSubscription
    \/ ManualRenewSubscription
    \/ DeletePaymentRecord
    \/ UpdatePaymentRecord
    \/ DeleteSubscription
    \/ ToggleSubscriptionStatus

SpecApi == InitApi /\ [][NextApi]_vars

(***************************************************************************)
(* Passes and manual renewals together.                                    *)
(***************************************************************************)

\* Active monthly subscriptions in cycle mode created with an amount: on
\* auto-renewal with the expiry date passed, solar or lunar, and a solar one
\* renewed by hand with the expiry date ahead.
HistoryGivens ==
    {g \in Givens :
       /\ g.isActive
       /\ g.periodUnit = "month"
       /\ g.subscriptionMode = "cycle"
       /\ g.amount # Undefined
       /\ \/ g.autoRenew /\ NewDate(g.expiryDate) = At(2023, 4, 19, 12, 0)
          \/ /\ ~g.autoRenew
             /\ ~g.useLunar
             /\ NewDate(g.expiryDate) = At(2023, 4, 22, 6, 0)}

HistoryStores ==
    {<<NewSubscription(1, g)>> : g \in HistoryGivens}
      \cup {<<NewSubscription(1, c), NewSubscription(2, g)>> :
              c \in {k \in Companions : k.amount # Undefined},
              g \in {h \in HistoryGivens : h.autoRenew}}

InitHistory ==
    /\ subscriptions \in HistoryStores
    /\ timezone = "Etc/GMT-8"
    /\ now = UserNow
    /\ last = [op |-> "none"]
    /\ probe = [op |-> "none"]
    /\ userOps = 0

NextHistory ==
    \/ CheckExpiringSubscriptions
    \/ ManualRenewSubscription
    \/ AdvanceClock

SpecHistory == InitHistory /\ [][NextHistory]_vars

(***************************************************************************)
(* What a pass did, read from the store before it and after it.            *)
(***************************************************************************)

PassDone == last.op = "check"

\* Subscription i was renewed by the pass.
RenewedInPass(i) ==
    Len(subscriptions[i].paymentHistory) > Len(last.before[i].paymentHistory)

\* The days from today to the day of date, both in the configured timezone.
DaysFromToday(date) ==
    Round(getTimezoneMidnightTimestamp(date, timezone)
            - getTimezoneMidnightTimestamp(last.at, timezone), MS_PER_DAY)

\* daysDiff of a stored subscription as the pass reads it.
StoredDaysDiff(sub) ==
    Round(ExpiryMidnight(sub, NewDate(sub.expiryDate), timezone).value
            - getTimezoneMidnightTimestamp(last.at, timezone), MS_PER_DAY)

\* The lunar reading of the stored expiry date fails.
NoLunarDate(sub) ==
    sub.useLunar /\ LET d == LocalDate(NewDate(sub.expiryDate))
                    IN  solar2lunar(d.year, d.month, d.day) = Null

\* The conditions of an auto-renewal.
Due(sub) ==
    /\ sub.isActive
    /\ sub.autoRenew
    /\ sub.periodValue # 0
    /\ sub.periodUnit # ""
    /\ StoredDaysDiff(sub) < 0

\* The date a renewal starts from.
BaseOf(sub) ==
    IF sub.subscriptionMode = "reset" THEN last.at ELSE NewDate(sub.expiryDate)

RECURSIVE ChainDates(_, _, _)
\* The dates reached from base by 1, 2, .. k additions of the period of sub,
\* each from the date before it.
ChainDates(sub, base, k) ==
    IF k = 0 THEN <<>>
    ELSE Strict(ChainDates(sub, base, k - 1),
           LAMBDA dates :
             Append(dates,
                    addOnePeriod(sub, IF dates = <<>> THEN base
                                      ELSE dates[Len(dates)]).value))

\* The record the pass appended to subscription i, and the periods it says
\* were added.
AddedRecord(i) ==
    subscriptions[i].paymentHistory[Len(subscriptions[i].paymentHistory)]

PeriodsAdded(i) ==
    IF AddedRecord(i).note.filled = 0 THEN 1 ELSE AddedRecord(i).note.filled

\* The base of addition j of a chain.
BaseOfStep(dates, base, j) == IF j = 1 THEN base ELSE dates[j - 1]

(***************************************************************************)
(* Claims                                                                  *)
(***************************************************************************)

\* C1: for every solar date of the supported range, from 1900-01-31 to
\* 2100-12-31, lunar2solar(solar2lunar(d)) is d: the same year, month and day.
C1_RoundTrip ==
    probe.op = "roundTrip" => probe.back = probe.solar

\* C1 witness: a day of the leap second month of 2023 converted and back.
C1_Witness ==
    /\ probe.op = "roundTrip"
    /\ probe.lunar.isLeap
    /\ probe.back = probe.solar

\* C2: after a pass every renewed subscription's new expiry date is today or
\* later (daysDiff >= 0), and the number of periods added is the smallest
\* k >= 1 for which chaining k additions from the base date gets there.
C2_CaughtUpInOnePass ==
    PassDone =>
      \A i \in 1..Len(subscriptions) :
        RenewedInPass(i) =>
          \E k \in {PeriodsAdded(i)} :
            \E dates \in {ChainDates(last.before[i], BaseOf(last.before[i]), k)} :
              /\ k >= 1
              /\ NewDate(subscriptions[i].expiryDate) = dates[k]
              /\ DaysFromToday(dates[k]) >= 0
              /\ \A j \in 1..(k - 1) : DaysFromToday(dates[j]) < 0

\* C2 witness: a subscription caught up over three periods or more.
C2_Witness ==
    /\ PassDone
    /\ \E i \in 1..Len(subscriptions) :
         /\ RenewedInPass(i)
         /\ PeriodsAdded(i) >= 3
         /\ DaysFromToday(NewDate(subscriptions[i].expiryDate)) >= 0

\* C3: a pass changes a subscription only if it is active, its daysDiff is
\* < 0, autoRenew is true and periodValue and periodUnit are set, and then
\* only its startDate, expiryDate, lastPaymentDate and paymentHistory; every
\* other subscription is stored unchanged, and the pass adds, removes and
\* reorders none.
C3_PassFrame ==
    PassDone =>
      /\ Len(subscriptions) = Len(last.before)
      /\ \A i \in 1..Len(subscriptions) :
           /\ subscriptions[i].id = last.before[i].id
           /\ ~Due(last.before[i]) => subscriptions[i] = last.before[i]
           /\ subscriptions[i] =
                [last.before[i] EXCEPT
                   !.startDate = subscriptions[i].startDate,
                   !.expiryDate = subscriptions[i].expiryDate,
                   !.lastPaymentDate = subscriptions[i].lastPaymentDate,
                   !.paymentHistory = subscriptions[i].paymentHistory]

\* C3 witness: a pass over two subscriptions that renewed one and left the
\* other, which was not due, as it was.
C3_Witness ==
    /\ PassDone
    /\ Len(subscriptions) = 2
    /\ \E i, j \in 1..2 :
         /\ RenewedInPass(i)
         /\ ~Due(last.before[j])
         /\ subscriptions[j] = last.before[j]

\* What C4 says of every renewal but the amount of the record.
RecordAndDates(i) ==
    LET k == PeriodsAdded(i)
        record == AddedRecord(i)
    IN  /\ Len(subscriptions[i].paymentHistory)
             = Len(last.before[i].paymentHistory) + 1
        /\ SubSeq(subscriptions[i].paymentHistory, 1,
                  Len(last.before[i].paymentHistory))
             = last.before[i].paymentHistory
        /\ record.type = "auto"
        /\ record.date = toISOString(last.at)
        /\ \E dates \in {ChainDates(last.before[i], BaseOf(last.before[i]), k)} :
             /\ record.periodStart
                  = toISOString(BaseOfStep(dates, BaseOf(last.before[i]), k))
             /\ record.periodEnd = toISOString(dates[k])
        /\ subscriptions[i].startDate = record.periodStart
        /\ subscriptions[i].expiryDate = record.periodEnd
        /\ subscriptions[i].lastPaymentDate = toISOString(last.at)

\* C4: each auto-renewal appends exactly one payment record, whatever the
\* number of periods added, with type 'auto', date = now, periodStart = the
\* base date before the last addition and periodEnd = the final date; the
\* new startDate is that periodStart, the new expiryDate that periodEnd and
\* lastPaymentDate is now.  Its amount is the subscription's amount, and 0
\* when the subscription has none.
C4_OneAutoRecord ==
    PassDone =>
      \A i \in 1..Len(subscriptions) :
        RenewedInPass(i) =>
          /\ RecordAndDates(i)
          /\ AddedRecord(i).amount
               = IF IsNumber(last.before[i].amount) THEN last.before[i].amount
                 ELSE Num(0)

\* C4 witness: a renewal over several periods of a subscription that has an
\* amount, and one of a subscription that has none.
C4_Witness ==
    /\ PassDone
    /\ \E i \in 1..Len(subscriptions) :
         /\ RenewedInPass(i)
         /\ \/ PeriodsAdded(i) >= 2 /\ IsNumber(last.before[i].amount)
            \/ ~IsNumber(last.before[i].amount)
         /\ RecordAndDates(i)

\* C4 as the claim states it: the amount of the record is the subscription's
\* amount.
C4_AsClaimed ==
    PassDone =>
      \A i \in 1..Len(subscriptions) :
        RenewedInPass(i) =>
          /\ RecordAndDates(i)
          /\ AddedRecord(i).amount = last.before[i].amount

\* The pass, seen from one subscription of the store it read.
Alone(sub) ==
    ProcessSubscription(sub, last.at,
                        getTimezoneMidnightTimestamp(last.at, timezone),
                        timezone)

\* Subscription i is in the list the pass notifies.
InReminderList(i) ==
    \E e \in 1..Len(last.expiringSubscriptions) :
      last.expiringSubscriptions[e].subscription.id = subscriptions[i].id

\* The lunar reading fails for no subscription the pass read.
AllReadable == \A i \in 1..Len(last.before) : ~NoLunarDate(last.before[i])

\* C5: for a cycle-mode subscription with autoRenew true whose expiry date
\* lies k >= 1 periods in the past, a pass that completes adds exactly one
\* payment record of type 'auto', and its periodStart is the expiry date the
\* subscription had before the pass advanced by the k - 1 periods before the
\* last: that expiry date itself when k = 1.  A pass that fails adds nothing.
C5_CyclePeriodStart ==
    PassDone =>
      \A i \in 1..Len(subscriptions) :
        (Due(last.before[i]) /\ ModeOf(last.before[i]) = "cycle") =>
          IF last.ok
          THEN /\ Len(subscriptions[i].paymentHistory)
                    = Len(last.before[i].paymentHistory) + 1
               /\ AddedRecord(i).type = "auto"
               /\ \E k \in {PeriodsAdded(i)} :
                    \E dates \in {ChainDates(last.before[i],
                                             NewDate(last.before[i].expiryDate),
                                             k)} :
                      /\ AddedRecord(i).periodStart
                           = IF k = 1 THEN last.before[i].expiryDate
                             ELSE toISOString(dates[k - 1])
                      /\ k > 1 => dates[k - 1] > NewDate(last.before[i].expiryDate)
          ELSE subscriptions[i] = last.before[i]

\* C5 witness: a cycle-mode subscription renewed over two periods or more,
\* its record starting after the expiry date it had.
C5_Witness ==
    /\ PassDone /\ last.ok
    /\ \E i \in 1..Len(subscriptions) :
         /\ Due(last.before[i]) /\ ModeOf(last.before[i]) = "cycle"
         /\ PeriodsAdded(i) >= 2
         /\ AddedRecord(i).periodStart # last.before[i].expiryDate

\* C5 as the claim states it, for the passes that complete over readable
\* subscriptions: the periodStart of the record is the expiry date the
\* subscription had before the pass, however many periods were added.
C5_AsClaimed ==
    (PassDone /\ last.ok /\ AllReadable) =>
      \A i \in 1..Len(subscriptions) :
        (Due(last.before[i]) /\ ModeOf(last.before[i]) = "cycle") =>
          /\ Len(subscriptions[i].paymentHistory)
               = Len(last.before[i].paymentHistory) + 1
          /\ AddedRecord(i).type = "auto"
          /\ AddedRecord(i).periodStart = last.before[i].expiryDate

\* C6: for a reset-mode subscription renewed in a pass, the new startDate is
\* now and not the old expiry date, exactly one period is added, and the new
\* expiryDate is now advanced by one period.
C6_ResetFromNow ==
    PassDone =>
      \A i \in 1..Len(subscriptions) :
        (RenewedInPass(i) /\ ModeOf(last.before[i]) = "reset") =>
          /\ subscriptions[i].startDate = toISOString(last.at)
          /\ PeriodsAdded(i) = 1
          /\ subscriptions[i].expiryDate
               = toISOString(addOnePeriod(last.before[i], last.at).value)

\* C6 witness: a reset-mode renewal that started from now, the old expiry
\* date being another instant.
C6_Witness ==
    /\ PassDone
    /\ \E i \in 1..Len(subscriptions) :
         /\ RenewedInPass(i) /\ ModeOf(last.before[i]) = "reset"
         /\ subscriptions[i].startDate = toISOString(last.at)
         /\ last.before[i].expiryDate # toISOString(last.at)
         /\ NewDate(subscriptions[i].expiryDate) > last.at

\* C7: when one subscription of a pass hits an arithmetic failure, the pass
\* is not aborted: every other subscription is still evaluated, its renewal
\* is persisted and its reminder decision is made.
C7_FailureContained ==
    (PassDone /\ timezone \in ValidTimezones) =>
      \A i \in 1..Len(subscriptions) :
        Alone(last.before[i]).status = "threw" =>
          \A j \in 1..Len(subscriptions) :
            \E other \in {Alone(last.before[j])} :
              /\ other.status = "renewed" => subscriptions[j] = other.updated
              /\ (other.status # "threw" /\ other.reminder # <<>>)
                   => InReminderList(j)

\* C8: a lunar subscription whose expiry date has no lunar reading is handled
\* by solar logic throughout the pass: daysDiff from the solar midnight, and
\* when it is due its dates advanced by solar period addition, with no error.
C8_SolarFallback ==
    (PassDone /\ timezone \in ValidTimezones) =>
      \A i \in 1..Len(subscriptions) :
        NoLunarDate(last.before[i]) =>
          /\ last.ok
          /\ StoredDaysDiff(last.before[i])
               = DaysFromToday(NewDate(last.before[i].expiryDate))
          /\ \E solar \in {Alone([last.before[i] EXCEPT !.useLunar = FALSE])} :
               solar.status = "renewed" =>
                 subscriptions[i] = [solar.updated EXCEPT !.useLunar = TRUE]

\* C9: the catch-up loop ends: each addition of the period gives a date
\* strictly later than its base, so the additions are at most one more than
\* the days the base lies in the past, and the loop exits with daysDiff >= 0.
C9_LoopEnds ==
    PassDone =>
      \A i \in 1..Len(subscriptions) :
        RenewedInPass(i) =>
          \E base \in {BaseOf(last.before[i])} :
            \E dates \in {ChainDates(last.before[i], base, PeriodsAdded(i))} :
              /\ \A j \in 1..Len(dates) : dates[j] > BaseOfStep(dates, base, j)
              /\ Len(dates) <= IF DaysFromToday(base) < 0
                               THEN 1 - DaysFromToday(base) ELSE 1
              /\ NewDate(subscriptions[i].expiryDate) = dates[Len(dates)]
              /\ DaysFromToday(dates[Len(dates)]) >= 0

\* C9 witness: a lunar subscription the loop caught up over two periods or
\* more.
C9_Witness ==
    /\ PassDone
    /\ \E i \in 1..Len(subscriptions) :
         /\ RenewedInPass(i)
         /\ last.before[i].useLunar
         /\ PeriodsAdded(i) >= 2
         /\ NewDate(subscriptions[i].expiryDate)
              > NewDate(subscriptions[i].startDate)

\* The reminder decision against the new expiry date of subscription i.
DueForReminder(i) ==
    shouldTriggerReminder(resolveReminderSetting(subscriptions[i]),
                          DaysFromToday(NewDate(subscriptions[i].expiryDate)),
                          NewDate(subscriptions[i].expiryDate) - last.at)

\* C10: after a renewal the reminder decision is taken against the new
\* expiry date: the renewed subscription is in the pass's reminder list
\* exactly when shouldTriggerReminder(setting, daysDiff of the new expiry,
\* hoursDiff of the new expiry) is true.
C10_ReminderAfterRenewal ==
    PassDone =>
      \A i \in 1..Len(subscriptions) :
        RenewedInPass(i) =>
          /\ InReminderList(i) <=> DueForReminder(i)
          /\ \A e \in 1..Len(last.expiringSubscriptions) :
               last.expiringSubscriptions[e].subscription.id = subscriptions[i].id
                 => /\ last.expiringSubscriptions[e].subscription = subscriptions[i]
                    /\ last.expiringSubscriptions[e].daysRemaining
                         = DaysFromToday(NewDate(subscriptions[i].expiryDate))

\* C10 witness: a renewed subscription in the reminder list, and one that is
\* not in it.
C10_Witness ==
    /\ PassDone
    /\ \E i \in 1..Len(subscriptions) :
         /\ RenewedInPass(i)
         /\ InReminderList(i)
         /\ DueForReminder(i)
         /\ StoredDaysDiff(last.before[i]) < 0

(***************************************************************************)
(* What a request did, read from the store before it and after it.         *)
(***************************************************************************)

\* The request named op was served and answered success.
Served(op) == last.op = op /\ last.ok

\* The subscription a manual renewal was asked for, before and after it.
RenewedBefore == last.before[IndexOf(last.before, last.id)]
RenewedAfter == subscriptions[IndexOf(last.before, last.id)]

\* The payment date of the request: the one it carries, else the clock.
PaidAt ==
    IF last.options.paymentDate # Null THEN NewDate(last.options.paymentDate)
    ELSE last.at

\* The number of periods the request asks for.
MultiplierAsked ==
    IF last.options.periodMultiplier = 0 THEN 1
    ELSE last.options.periodMultiplier

\* The last payment record of a subscription.
LastRecord(sub) == sub.paymentHistory[Len(sub.paymentHistory)]

\* The new period of the renewed subscription starts at base.
StartsAt(base) ==
    /\ RenewedAfter.startDate = toISOString(base)
    /\ LastRecord(RenewedAfter).periodStart = toISOString(base)

\* C11: a manual renewal starts the new period (startDate and the record's
\* periodStart) in reset mode from the payment date, which is now unless the
\* request carries one, and in cycle mode from the stored expiry date when
\* that is later than the payment date, else from the payment date.
C11_ManualBase ==
    Served("manualRenew") =>
      StartsAt(IF RenewedBefore.subscriptionMode = "reset" THEN PaidAt
               ELSE IF NewDate(RenewedBefore.expiryDate) > PaidAt
               THEN NewDate(RenewedBefore.expiryDate)
               ELSE PaidAt)

\* C11 witness: a cycle subscription whose expiry date has passed is renewed
\* by hand with no payment date, and its new period starts now.
C11_Witness ==
    /\ Served("manualRenew")
    /\ RenewedBefore.subscriptionMode = "cycle"
    /\ last.options.paymentDate = Null
    /\ NewDate(RenewedBefore.expiryDate) < last.at
    /\ StartsAt(last.at)

\* C11 as claimed: the new period starts from the stored expiry date in cycle
\* mode, whether or not that date has passed, and from now in reset mode.
C11_AsClaimed ==
    Served("manualRenew") =>
      StartsAt(IF RenewedBefore.subscriptionMode = "reset" THEN last.at
               ELSE NewDate(RenewedBefore.expiryDate))

\* The date reached from the new startDate by adding the period of the
\* renewed subscription once, then once more from there, as many times as
\* the request asks for.
ChainedExpiry ==
    Strict(ChainDates(RenewedBefore, NewDate(RenewedAfter.startDate),
                      MultiplierAsked),
           LAMBDA dates : dates[Len(dates)])

\* Adding months or years to the date cannot leave its month: its day is one
\* every month has.
DayOfEveryMonth(date) == LocalDate(date).day <= 28

\* C12: the expiry date a manual renewal sets is, for a lunar subscription,
\* the one reached by adding the period periodMultiplier times in succession
\* from the new startDate; for a solar subscription it is the one reached by
\* adding periodValue * periodMultiplier units once, which is the same date
\* when the unit is the day or the day of the month is one every month has.
C12_MultipliedPeriod ==
    Served("manualRenew") =>
      /\ RenewedBefore.useLunar =>
           RenewedAfter.expiryDate = toISOString(ChainedExpiry)
      /\ ~RenewedBefore.useLunar =>
           /\ RenewedAfter.expiryDate =
                toISOString(AddSolarPeriod(
                              NewDate(RenewedAfter.startDate),
                              RenewedBefore.periodValue * MultiplierAsked,
                              RenewedBefore.periodUnit))
           /\ (RenewedBefore.periodUnit = "day"
                 \/ DayOfEveryMonth(NewDate(RenewedAfter.startDate)))
                => RenewedAfter.expiryDate = toISOString(ChainedExpiry)

\* C12 witness: a monthly solar subscription expiring on 31 May 2023 is
\* renewed for several months at once, to the 31st of a later month, which
\* adding the months one by one does not reach.
C12_Witness ==
    /\ Served("manualRenew")
    /\ MultiplierAsked >= 2
    /\ ~RenewedBefore.useLunar
    /\ RenewedBefore.periodUnit = "month"
    /\ RenewedAfter.startDate = toISOString(ExpiryAhead)
    /\ LocalDate(NewDate(RenewedAfter.expiryDate)).day = 31
    /\ RenewedAfter.expiryDate # toISOString(ChainedExpiry)

\* C12 as claimed: solar or lunar, the expiry date set is the one reached by
\* adding the single period periodMultiplier times in succession.
C12_AsClaimed ==
    Served("manualRenew") =>
      RenewedAfter.expiryDate = toISOString(ChainedExpiry)

\* The payment record a deletion removed, and the records it left.
DeletedRecord ==
    RenewedBefore.paymentHistory[IndexOf(RenewedBefore.paymentHistory,
                                         last.paymentId)]

Remaining == RenewedAfter.paymentHistory

\* C13: after a deletion of a payment record, the expiry date of the
\* subscription is the periodEnd of a remaining record that no remaining
\* record's periodEnd is later than, or, when no record remains, the
\* periodStart of the deleted record; and the deleted record is the only one
\* gone.
C13_RolledBack ==
    Served("deletePayment") =>
      /\ Len(Remaining) = Len(RenewedBefore.paymentHistory) - 1
      /\ \A k \in 1..Len(Remaining) :
           /\ Remaining[k] # DeletedRecord
           /\ \E j \in 1..Len(RenewedBefore.paymentHistory) :
                RenewedBefore.paymentHistory[j] = Remaining[k]
      /\ IF Remaining = <<>>
         THEN RenewedAfter.expiryDate = DeletedRecord.periodStart
         ELSE \E k \in 1..Len(Remaining) :
                /\ RenewedAfter.expiryDate = Remaining[k].periodEnd
                /\ \A j \in 1..Len(Remaining) :
                     NewDate(Remaining[j].periodEnd)
                       <= NewDate(Remaining[k].periodEnd)

\* C13 witness: a history of an initial record and two manual ones loses the
\* record with the latest periodEnd, and the expiry date goes back to the
\* periodEnd of the initial record, which is later than that of the manual
\* record left after it.
C13_Witness ==
    /\ Served("deletePayment")
    /\ Len(Remaining) = 2
    /\ Remaining[1].type = "initial"
    /\ DeletedRecord.type = "manual"
    /\ NewDate(DeletedRecord.periodEnd) > NewDate(Remaining[1].periodEnd)
    /\ NewDate(Remaining[2].periodEnd) < NewDate(Remaining[1].periodEnd)
    /\ RenewedAfter.expiryDate = Remaining[1].periodEnd

\* The subscription a creation has stored.
CreatedNow == subscriptions[Len(subscriptions)]

\* C20: after a creation whose request carries an expiry date before now,
\* the stored expiry date is not before now.
C20_StoredNotExpired ==
    (Served("create") /\ NewDate(last.body.given.expiryDate) < last.at)
      => NewDate(CreatedNow.expiryDate) >= last.at

\* The LunarDate invariant: a year of the table, a month of the year, a day
\* of that month (of the leap month when isLeap), and isLeap only for the
\* month the year repeats.
LunarDateValid(lunar) ==
    /\ lunar # Null
    /\ lunar.year \in 1900..2100
    /\ lunar.month \in 1..12
    /\ lunar.day >= 1
    /\ lunar.day <= (IF lunar.isLeap THEN leapDays(lunar.year)
                     ELSE monthDays(lunar.year, lunar.month))
    /\ lunar.isLeap => leapMonth(lunar.year) = lunar.month

\* C19: for every solar date of a year in 1900..2100, solar2lunar returns a
\* lunar date that satisfies the LunarDate invariant.
C19_LunarDateValid ==
    (probe.op = "solar2lunar" /\ probe.solar.year \in 1900..2100)
      => LunarDateValid(probe.lunar)

(***************************************************************************)
(* What the pure functions returned.                                       *)
(***************************************************************************)

\* shouldTriggerReminder was probed on a setting of the unit.
Triggered(unit) == probe.op = "shouldTrigger" /\ probe.reminder.unit = unit

\* C14: for a day-unit setting, shouldTriggerReminder is true exactly when
\* daysDiff is 0 if the value is 0, and exactly when 0 <= daysDiff <= value
\* if the value is greater, whatever hoursDiff is.
C14_DayWindow ==
    Triggered("day") =>
      (probe.result <=>
         IF probe.reminder.value = 0 THEN probe.daysDiff = 0
         ELSE 0 <= probe.daysDiff /\ probe.daysDiff <= probe.reminder.value)

\* C14 witness: a day-unit setting of the largest value fires on the last
\* day of its window although the expiry instant has passed.
C14_Witness ==
    /\ Triggered("day")
    /\ probe.reminder.value = MaxReminder
    /\ probe.daysDiff = MaxReminder
    /\ probe.diffMs < 0
    /\ probe.result

\* C15: for an hour-unit setting, shouldTriggerReminder is true exactly when
\* 0 <= hoursDiff < 1 if the value is 0, and exactly when 0 <= hoursDiff <=
\* value if the value is greater, whatever daysDiff is.
C15_HourWindow ==
    Triggered("hour") =>
      (probe.result <=>
         /\ 0 <= probe.diffMs
         /\ IF probe.reminder.value = 0 THEN probe.diffMs < MS_PER_HOUR
            ELSE probe.diffMs <= probe.reminder.value * MS_PER_HOUR)

\* C15 witness: an hour-unit setting of value 0 fires within the hour before
\* the expiry, though the expiry is on the next calendar day.
C15_Witness ==
    /\ Triggered("hour")
    /\ probe.reminder.value = 0
    /\ probe.daysDiff = 1
    /\ probe.diffMs = MS_PER_HOUR - 1
    /\ probe.result

\* The number a reminder field stands for, negative ones read as 0.
NotNegative(n) == IF n < 0 THEN 0 ELSE n

\* The unit resolveReminderSetting was probed on.
UnitAsked ==
    IF probe.subscription.reminderUnit = "hour" THEN "hour" ELSE "day"

\* C16: resolveReminderSetting returns the unit 'hour' only when
\* reminderUnit is 'hour', and 'day' otherwise; its value is never negative;
\* it is reminderValue when that is present and numeric, 0 when it is
\* negative; otherwise, for the hour unit, reminderHours when present and
\* numeric (0 when negative) and 0 when not, and for the day unit
\* reminderDays when numeric (0 when negative or null) and 7 when undefined
\* or not numeric.
C16_Resolved ==
    probe.op = "resolve" =>
      /\ probe.result.unit = UnitAsked
      /\ probe.result.value >= 0
      /\ probe.result.value =
           IF IsNumber(probe.subscription.reminderValue)
           THEN NotNegative(NumberOf(probe.subscription.reminderValue))
           ELSE IF UnitAsked = "hour"
           THEN IF IsNumber(probe.subscription.reminderHours)
                THEN NotNegative(NumberOf(probe.subscription.reminderHours))
                ELSE 0
           ELSE IF IsNumber(probe.subscription.reminderDays)
                THEN NotNegative(NumberOf(probe.subscription.reminderDays))
                ELSE IF probe.subscription.reminderDays = JsNull THEN 0
                ELSE 7

\* C16 witness: a negative reminderValue next to a legacy reminderDays of 3
\* resolves to 0 days.
C16_Witness ==
    /\ probe.op = "resolve"
    /\ UnitAsked = "day"
    /\ probe.subscription.reminderValue = Num(0 - 1)
    /\ probe.subscription.reminderDays = Num(3)
    /\ probe.result = [unit |-> "day", value |-> 0]

\* C16 as claimed: the value is reminderValue when that is present, numeric
\* and not negative, and otherwise the legacy field of the unit, 0 (hour) or
\* 7 (day) when that is missing; and it is never negative.
C16_AsClaimed ==
    probe.op = "resolve" =>
      /\ probe.result.unit = UnitAsked
      /\ probe.result.value >= 0
      /\ probe.result.value =
           IF IsNumber(probe.subscription.reminderValue)
                /\ NumberOf(probe.subscription.reminderValue) >= 0
           THEN NumberOf(probe.subscription.reminderValue)
           ELSE IF UnitAsked = "hour"
           THEN IF IsNumber(probe.subscription.reminderHours)
                THEN NotNegative(NumberOf(probe.subscription.reminderHours))
                ELSE 0
           ELSE IF IsNumber(probe.subscription.reminderDays)
                THEN NotNegative(NumberOf(probe.subscription.reminderDays))
                ELSE 7

\* The calendar day of the parts, without the time of day.
DayOfParts(p) == [year |-> p.year, month |-> p.month, day |-> p.day]

\* The parts are those of a midnight.
AtMidnight(p) == p.hour = 0 /\ p.rest = 0

LocalDayNumber(t, tz) == (t + UtcOffset(tz) * MS_PER_HOUR) \div MS_PER_DAY

\* The whole days between the calendar days of b and of a in the zone.
DaysBetween == LocalDayNumber(probe.a, probe.timezone)
                 - LocalDayNumber(probe.b, probe.timezone)

\* C18: the difference of getTimezoneMidnightTimestamp of two instants in one
\* zone is a whole number of days, the number of calendar days of the zone
\* between them: 0 for two instants of one local day, and not 0 for two
\* instants of different local days, however close.
C18_CalendarDays ==
    probe.op = "midnights" =>
      /\ (probe.ofA - probe.ofB) % MS_PER_DAY = 0
      /\ (probe.ofA - probe.ofB) \div MS_PER_DAY = DaysBetween
      /\ Round(probe.ofA - probe.ofB, MS_PER_DAY) = DaysBetween

\* C18 witness: in the zone eight hours east of UTC, an instant and one half
\* an hour later fall on different local days though on the same UTC day,
\* and the difference is one day.
C18_Witness ==
    /\ probe.op = "midnights"
    /\ probe.timezone = "Etc/GMT-8"
    /\ probe.a - probe.b = MS_PER_HOUR \div 2
    /\ probe.a \div MS_PER_DAY = probe.b \div MS_PER_DAY
    /\ probe.ofA - probe.ofB = MS_PER_DAY
(***************************************************************************)
(* What passes and requests do to the payment histories.                   *)
(***************************************************************************)

\* The list short is the beginning of the list long.
IsPrefix(short, long) ==
    /\ Len(short) <= Len(long)
    /\ \A k \in 1..Len(short) : long[k] = short[k]

\* The types of the records of a payment history.
TypesOf(paymentHistory) ==
    {paymentHistory[k].type : k \in 1..Len(paymentHistory)}

\* C21: a pass or a manual renewal keeps the subscriptions and their order,
\* keeps every payment record of every subscription, unchanged and in its
\* place, and adds at most one record to a history, at its end.
C21_AppendOnly ==
    [][/\ Len(subscriptions') = Len(subscriptions)
       /\ \A i \in 1..Len(subscriptions) :
            /\ subscriptions'[i].id = subscriptions[i].id
            /\ IsPrefix(subscriptions[i].paymentHistory,
                        subscriptions'[i].paymentHistory)
            /\ Len(subscriptions'[i].paymentHistory)
                 <= Len(subscriptions[i].paymentHistory) + 1]_vars

\* A history a creation has begun, a pass has added to and a manual renewal
\* has added to.
C21_Witness ==
    \E i \in 1..Len(subscriptions) :
      /\ TypesOf(subscriptions[i].paymentHistory) = {"initial", "auto", "manual"}
      /\ Len(subscriptions[i].paymentHistory) >= 3
(***************************************************************************)
(* What a pass did with the subscriptions it did not renew.                *)
(***************************************************************************)

\* The pass ran to its end.
PassCompleted == PassDone /\ last.ok

\* Active, expired at the pass and not renewed by it.
ExpiredNotRenewed(sub) ==
    /\ sub.isActive
    /\ StoredDaysDiff(sub) < 0
    /\ sub.autoRenew = FALSE \/ sub.periodValue = 0 \/ sub.periodUnit = ""

\* shouldTriggerReminder as the pass calls it for a stored subscription.
ReminderDue(sub) ==
    shouldTriggerReminder(resolveReminderSetting(sub), StoredDaysDiff(sub),
                          NewDate(sub.expiryDate) - last.at)

\* The entries of the reminder list for subscription i.
EntriesOf(i) ==
    {e \in 1..Len(last.expiringSubscriptions) :
       last.expiringSubscriptions[e].subscription.id = last.before[i].id}

LengthOfMonth(lunar) ==
    IF lunar.isLeap THEN leapDays(lunar.year)
    ELSE monthDays(lunar.year, lunar.month)

\* The first day of the month after the month of a lunar date: the leap
\* month after the regular month of its number, the first month of the next
\* year after the twelfth.
NextMonthOf(lunar) ==
    IF ~lunar.isLeap /\ leapMonth(lunar.year) = lunar.month
    THEN [year |-> lunar.year, month |-> lunar.month, day |-> 1,
          isLeap |-> TRUE]
    ELSE IF lunar.month = 12
    THEN [year |-> lunar.year + 1, month |-> 1, day |-> 1, isLeap |-> FALSE]
    ELSE [year |-> lunar.year, month |-> lunar.month + 1, day |-> 1,
          isLeap |-> FALSE]

\* The lunar date of the day after a lunar date.
SuccessorOf(lunar) ==
    IF lunar.day < LengthOfMonth(lunar)
    THEN [lunar EXCEPT !.day = lunar.day + 1]
    ELSE NextMonthOf(lunar)

\* C23: solar2lunar of the day after a day of 1900-01-31..2100-12-30 is the
\* lunar date after solar2lunar of the day: the next day of the month, or
\* the first day of the next month when the month is over, the leap month
\* coming after the regular month of its number and the first month of the
\* next year after the twelfth.
C23_Successor ==
    probe.op = "successor" => probe.next = SuccessorOf(probe.lunar)

\* C23 witness: the last day of a regular month followed by the first day of
\* the leap month of its number.
C23_Witness ==
    /\ probe.op = "successor"
    /\ ~probe.lunar.isLeap
    /\ probe.lunar.day = LengthOfMonth(probe.lunar)
    /\ probe.next = [year |-> probe.lunar.year, month |-> probe.lunar.month,
                     day |-> 1, isLeap |-> TRUE]
(***************************************************************************)
(* The lunar arithmetic on its own.                                        *)
(***************************************************************************)

\* The lunar dates of a lunar year of the table: the days of its twelve
\* months and of its leap month.
LunarDatesOf(year) ==
    {lunar \in [year : {year}, month : 1..12, day : 1..30, isLeap : BOOLEAN] :
       LunarDateValid(lunar)}

\* The periods added to the dates of the years around the leap second month
\* of 2023.
ShiftPeriods ==
    {[periodValue |-> 1, periodUnit |-> "month"],
     [periodValue |-> 13, periodUnit |-> "month"],
     [periodValue |-> 1, periodUnit |-> "year"]}

\* The additions probed: the periods above on every date of 2023 and 2024;
\* nineteen years on days of the leap month of 2023, to 2042 whose
\* leap month is the second too; and the additions that end in the last
\* two months of the table.
Additions ==
    {[lunar |-> lunar, period |-> period] :
       lunar \in UNION {LunarDatesOf(y) : y \in 2023..2024},
       period \in ShiftPeriods}
      \cup {[lunar |-> lunar,
             period |-> [periodValue |-> 19, periodUnit |-> "year"]] :
              lunar \in {l \in LunarDatesOf(2023) :
                           l.isLeap /\ l.day \in {1, 29}}}
      \cup {[lunar |-> lunar,
             period |-> [periodValue |-> 1, periodUnit |-> "month"]] :
              lunar \in {l \in LunarDatesOf(2100) : l.month \in {10, 11}}}
      \cup {[lunar |-> lunar,
             period |-> [periodValue |-> 1, periodUnit |-> "year"]] :
              lunar \in {l \in LunarDatesOf(2099) : l.month = 12}}

\* addLunarPeriod of a lunar date, and lunar2solar of what it returned.
AddLunarPeriod ==
    /\ probe.op = "none"
    /\ \E a \in Additions :
         \E result \in {addLunarPeriod(a.lunar, a.period.periodValue,
                                       a.period.periodUnit)} :
           probe' = [op |-> "addLunarPeriod", lunar |-> a.lunar,
                     periodValue |-> a.period.periodValue,
                     periodUnit |-> a.period.periodUnit,
                     result |-> result, solar |-> lunar2solar(result)]
    /\ UNCHANGED <<subscriptions, timezone, now, last, userOps>>

\* The dates twelve months are added to: the first, middle and last days of
\* the months of 2023, and the thirtieth days of 2022.
TwelveMonthsDates ==
    {l \in LunarDatesOf(2023) : l.day \in {1, 15, 29, 30}}
      \cup {l \in LunarDatesOf(2022) : l.day = 30}

\* Twelve months added at once, and one month added twelve times.
TwelveMonths ==
    /\ probe.op = "none"
    /\ \E lunar \in TwelveMonthsDates :
         \E once \in {addLunarPeriod(lunar, 12, "month")},
            stepped \in {AddLunarPeriods(lunar, 1, "month", 12)} :
           probe' = [op |-> "twelveMonths", lunar |-> lunar,
                     once |-> once, stepped |-> stepped,
                     solarOnce |-> lunar2solar(once),
                     solarStepped |-> lunar2solar(stepped)]
    /\ UNCHANGED <<subscriptions, timezone, now, last, userOps>>

\* The dates lunar2solar is probed on: every date of the first year of the
\* table, of 2023 and of the last year of the table.
Lunar2SolarDates == UNION {LunarDatesOf(y) : y \in {1900, 2023, 2100}}

\* lunar2solar of a lunar date, and solar2lunar of what it returned.
Lunar2Solar ==
    /\ probe.op = "none"
    /\ \E lunar \in Lunar2SolarDates :
         \E solar \in {lunar2solar(lunar)} :
           probe' = [op |-> "lunar2solar", lunar |-> lunar, solar |-> solar,
                     back |-> IF solar = Null THEN Null
                              ELSE solar2lunar(solar.year, solar.month,
                                               solar.day)]
    /\ UNCHANGED <<subscriptions, timezone, now, last, userOps>>

NextLunar ==
    \/ AddLunarPeriod
    \/ TwelveMonths
    \/ Lunar2Solar

SpecLunar == InitCalendar /\ [][NextLunar]_vars

\* C24: for unit year or month and a positive value, addLunarPeriod of a
\* table-valid lunar date whose result year is in 1900..2100 returns a
\* table-valid lunar date; its isLeap is true only if the input's was and
\* the result month is the leap month of the result year; its day is the
\* input's day or the length of the result month if that is less, or a
\* smaller day from 1 on; and lunar2solar of it is not null.
C24_ShiftedValid ==
    (probe.op = "addLunarPeriod" /\ probe.result.year \in 1900..2100) =>
      /\ LunarDateValid(probe.result)
      /\ probe.result.isLeap =>
           probe.lunar.isLeap /\ leapMonth(probe.result.year) = probe.result.month
      /\ probe.result.day >= 1
      /\ probe.result.day <= Min(probe.lunar.day, LengthOfMonth(probe.result))
      /\ probe.solar # Null

\* C24 witness: a thirtieth day moved to a month of 29 days.
C24_Witness ==
    /\ probe.op = "addLunarPeriod"
    /\ probe.lunar.day = 30
    /\ LengthOfMonth(probe.result) = 29
    /\ probe.result.day = 29
    /\ probe.solar # Null
\* C25 (amended): twelve months added at once and one month added twelve
\* times give the same lunar year, month and leap flag; the day reached in
\* twelve steps is the day reached at once or the day before it, and the
\* two solar dates are equal whenever the day of the date is not the
\* thirtieth.
C25_TwelveMonths ==
    probe.op = "twelveMonths" =>
      /\ probe.stepped.year = probe.once.year
      /\ probe.stepped.month = probe.once.month
      /\ probe.stepped.isLeap = probe.once.isLeap
      /\ probe.stepped.day \in {probe.once.day, probe.once.day - 1}
      /\ probe.solarOnce # Null /\ probe.solarStepped # Null
      /\ probe.lunar.day <= 29 => probe.solarStepped = probe.solarOnce

\* C25 witness: twelve months from a day of the leap month, the same solar
\* date either way.
C25_Witness ==
    /\ probe.op = "twelveMonths"
    /\ probe.lunar.isLeap
    /\ probe.lunar.day = 29
    /\ probe.solarOnce # Null
    /\ probe.solarStepped = probe.solarOnce

\* C25 as stated: the same solar date for every date.
C25_AsClaimed ==
    probe.op = "twelveMonths" => probe.solarStepped = probe.solarOnce
\* C26: lunar2solar of a table-valid lunar date of a year in 1900..2100 is
\* not null, and solar2lunar of the solar date it returns is the lunar date
\* again: the same year, month, day and leap flag.
C26_SolarOfEveryLunar ==
    probe.op = "lunar2solar" =>
      /\ probe.solar # Null
      /\ probe.back = probe.lunar

\* The half of C26 that holds: solar2lunar of a solar date lunar2solar has
\* returned is the lunar date again.
C26_BackWhenFound ==
    (probe.op = "lunar2solar" /\ probe.solar # Null) =>
      probe.back = probe.lunar
(***************************************************************************)
(* A pass after a pass.                                                    *)
(***************************************************************************)

\* The step is a pass that follows a pass with no clock step between them.
SecondPass == last.op = "check" /\ last'.op = "check" /\ last'.at = last.at

\* C27: a pass that follows a pass at the same clock reading, with nothing
\* between them, renews nothing and appends nothing: it saves nothing and
\* the stored list stays what the first pass left.
C27_SecondPassIdle ==
    [][SecondPass => (subscriptions' = subscriptions /\ ~last'.saved)]_vars

\* C27 witness: the state after a second pass that found the subscriptions
\* as the pass before it, which had renewed one at this clock reading, had
\* left them.
C27_Witness ==
    /\ PassDone
    /\ last.at = now
    /\ ~last.saved
    /\ subscriptions = last.before
    /\ \E i \in 1..Len(subscriptions) :
         /\ subscriptions[i].paymentHistory # <<>>
         /\ LastRecord(subscriptions[i]).type = "auto"
         /\ LastRecord(subscriptions[i]).date = toISOString(now)
(***************************************************************************)
(* daysDiff of a lunar subscription and of a solar one.                    *)
(***************************************************************************)

\* The subscription with useLunar false.
AsSolar(sub) == [sub EXCEPT !.useLunar = FALSE]

\* C28: the daysDiff a pass computes for an active lunar subscription whose
\* expiry date has a lunar reading is the daysDiff it computes for the same
\* stored expiry date with useLunar false, in the configured timezone.
C28_SameDaysDiff ==
    (PassDone /\ timezone \in ValidTimezones) =>
      \A i \in 1..Len(last.before) :
        (/\ last.before[i].isActive
         /\ last.before[i].useLunar
         /\ ~NoLunarDate(last.before[i]))
          => StoredDaysDiff(last.before[i])
               = StoredDaysDiff(AsSolar(last.before[i]))
(***************************************************************************)
(* A manual renewal undone.                                                *)
(***************************************************************************)

\* The step deletes the payment record the manual renewal before it wrote.
UndoesRenewal ==
    /\ Served("manualRenew")
    /\ last'.op = "deletePayment"
    /\ last'.ok
    /\ last'.id = last.id
    /\ last'.paymentId = LastRecord(RenewedAfter).id

\* C29: deleting the payment record a manual renewal has just written gives
\* the subscription the expiry date it had before the renewal.
C29_RenewalUndone ==
    [][UndoesRenewal =>
         subscriptions'[IndexOf(last.before, last.id)].expiryDate
           = RenewedBefore.expiryDate]_vars
(***************************************************************************)
(* Requests the API rejects.                                               *)
(***************************************************************************)

\* The subscription the last request named, as stored before it; 0 when no
\* stored subscription has the id.
NamedIndex == IndexOf(last.before, last.id)

\* The last request named a subscription the store does not hold.
UnknownSubscription ==
    /\ last.op \in {"manualRenew", "deletePayment", "updatePayment",
                    "deleteSubscription", "toggle"}
    /\ NamedIndex = 0

\* The last request named a payment record its subscription does not have.
UnknownPayment ==
    /\ last.op \in {"deletePayment", "updatePayment"}
    /\ NamedIndex # 0
    /\ IndexOf(last.before[NamedIndex].paymentHistory, last.paymentId) = 0

\* The last request asked to renew a subscription that has no period.
RenewalWithoutPeriod ==
    /\ last.op = "manualRenew"
    /\ NamedIndex # 0
    /\ \/ last.before[NamedIndex].periodValue = 0
       \/ last.before[NamedIndex].periodUnit = ""

\* The last request asked to create a subscription without a name or
\* without an expiry date.
CreationWithoutField ==
    /\ last.op = "create"
    /\ (last.body.name = "" \/ last.body.given.expiryDate = Null)

\* C30: a request naming an unknown subscription or an unknown payment
\* record, a renewal of a subscription without a period and a creation
\* without name or expiry date are answered success = false and leave the
\* stored list as it was.
C30_RejectedWritesNothing ==
    (\/ UnknownSubscription
     \/ UnknownPayment
     \/ RenewalWithoutPeriod
     \/ CreationWithoutField)
      => (~last.ok /\ subscriptions = last.before)

\* A rejected deletion of a subscription is reached on a store that holds
\* subscriptions, as the last request of a behaviour.
C30_Witness ==
    /\ UnknownSubscription
    /\ last.op = "deleteSubscription"
    /\ ~last.ok
    /\ last.before # <<>>
    /\ userOps = MaxUserOps
    /\ subscriptions = last.before

=============================================================================
